---- MODULE Spec2Model ----
(***************************************************************************)
(* A model of the AegisBlade Node.js client: AegisBladeClient.run (the     *)
(* packaging / create-application / upload / create-job pipeline) and the  *)
(* Job handle (getStatus, isCompleted, wait, getReturnValue, getLogs).     *)
(***************************************************************************)
EXTENDS Integers, Sequences, FiniteSets, TLC

\* ------------------------------------------------------------------------
\* Bounds of the model
\* ------------------------------------------------------------------------
\* longest fileHashesRequiringUpload list the server answers with
MaxMissing == 2
\* number of client calls made on one Job handle
MaxCalls == 2
\* transport failures the environment injects into status requests
MaxFailures == 3
\* the clock saturates here ("MaxTime or later"), in milliseconds
MaxTime == 2100
\* JobConfig instances constructed, and with* calls made on them
MaxConfigs == 2
MaxWithCalls == 3
\* Api operations started, and setApiKey / setEndpoint calls made
MaxOps == 1
MaxSets == 2
\* getUploadFiles calls made one after the other
MaxCollections == 2
\* child processes spawned by runInProcess
MaxProcs == 2

\* ------------------------------------------------------------------------
\* Program constants
\* ------------------------------------------------------------------------
\* Job.getStatus(retries=7)
DefaultRetries == 7
\* Api.jobStatus: let retries = 3
ApiRetries == 3
\* Job.wait: await timeout(700)
PollDelay == 700

\* JS null / undefined for string-valued things (both are falsy, as is "")
NULL == ""

Min(a, b) == IF a < b THEN a ELSE b

Range(s) == {s[k] : k \in 1..Len(s)}

\* all sequences over S of length at most n
SeqsUpTo(S, n) == UNION {[1..k -> S] : k \in 0..n}

\* ------------------------------------------------------------------------
\* Paths.  A path is a sequence of segments; paths are relative to
\* process.cwd() unless they start with the segment "/".
\* ------------------------------------------------------------------------
\* path.relative(process.cwd(), p): the normalised path from cwd to p.
\* "." segments vanish and "x/.." pairs collapse; leading ".." stay.
RECURSIVE Normalize(_, _)
Normalize(done, todo) ==
    IF todo = <<>> THEN done
    ELSE LET s == Head(todo) IN
         IF s = "." THEN Normalize(done, Tail(todo))
         ELSE IF s = ".." /\ done # <<>> /\ done[Len(done)] # ".."
              THEN Normalize(SubSeq(done, 1, Len(done) - 1), Tail(todo))
              ELSE Normalize(Append(done, s), Tail(todo))

PathRelative(p) == Normalize(<<>>, p)

\* path.join(a, b)
PathJoin(a, b) == Normalize(<<>>, a \o b)

\* the segments whose text contains "node_modules" (the regex /node_modules/
\* is a substring test on the whole path text)
NodeModulesSegments == {"node_modules", "old_node_modules"}
\* the segments whose text contains ".." (the regex /\.\./)
DotDotSegments == {"..", "v1..2.js"}

\* a collector without the pattern /node_modules/
ExcludedPatternDotDotOnly(relElem) ==
    \E k \in 1..Len(relElem) : relElem[k] \in DotDotSegments

\* excludedPatterns of ApplicationContextFile.collect
ExcludedPattern(relElem) ==
    \E k \in 1..Len(relElem) :
        relElem[k] \in NodeModulesSegments \/ relElem[k] \in DotDotSegments

\* path.extname(f) === ".js", on the segment alphabet of the model
JsSegments == {"index.js", "util.js", "main.js", "x.js", "v1..2.js"}
IsJsFile(p) == p # <<>> /\ p[Len(p)] \in JsSegments

\* ------------------------------------------------------------------------
\* Content fingerprinting
\* ------------------------------------------------------------------------
\* readFile(path) decodes the bytes as UTF-8 text: a byte that is no valid
\* UTF-8 (here: any byte >= 128, which the model only uses alone) becomes
\* U+FFFD.  Characters are code points.
Utf8Decode(bytes) ==
    [k \in 1..Len(bytes) |-> IF bytes[k] < 128 THEN bytes[k] ELSE 65533]

\* Buffer.from(text, 'utf8'): U+FFFD encodes as EF BF BD
RECURSIVE Utf8Encode(_)
Utf8Encode(text) ==
    IF text = <<>> THEN <<>>
    ELSE (IF Head(text) < 128 THEN <<Head(text)>> ELSE <<239, 191, 189>>)
         \o Utf8Encode(Tail(text))

\* crypto.createHash('sha256').update(x).digest('hex'): a digest is
\* modelled as an injective tag of the hashed bytes
Sha256(bytes) == <<"sha256", bytes>>

\* new ApplicationContextFile(filePath, relPath, fileHash, fileByteCount, fileContents)
ApplicationContextFile(filePath, relPath, fileHash, fileByteCount, fileContents) ==
    [filePath |-> filePath,
     filePathRelativeToAppContext |-> relPath,
     fileHash |-> fileHash,
     fileByteCount |-> fileByteCount,
     fileContents |-> fileContents]

\* the body of the read loop of ApplicationContextFile.collect for one path
\* whose bytes on disk are `bytes`
CollectedFile(filePath, bytes) ==
    LET fileContents == Utf8Decode(bytes)
        encoded == Utf8Encode(fileContents)
    IN ApplicationContextFile(filePath, PathRelative(filePath),
                              Sha256(encoded), Len(encoded), encoded)

\* ------------------------------------------------------------------------
\* The file systems of the model.  files: path -> bytes on disk;
\* cache: the keys of require.cache.
\* ------------------------------------------------------------------------
FsPlain ==
    [files |-> [p \in { <<"index.js">>, <<"util.js">>,
                        <<"data", "blob.bin">>,
                        <<"node_modules", "dep", "main.js">> } |->
                  CASE p = <<"index.js">> -> <<104, 105>>
                    [] p = <<"util.js">> -> <<117>>
                    [] p = <<"data", "blob.bin">> -> <<104, 105>>
                    [] OTHER -> <<100>>],
     cache |-> { <<"index.js">>, <<"util.js">>,
                 <<"node_modules", "dep", "main.js">>,
                 <<"..", "other", "x.js">> }]

FsOdd ==
    [files |-> [p \in { <<"index.js">>, <<"data", "blob.bin">>,
                        <<"old_node_modules", "x.js">>,
                        <<"v1..2.js">>,
                        <<"aegisblade_lib", "liba-1.0.0.tgz">> } |->
                  CASE p = <<"index.js">> -> <<104, 105>>
                    [] p = <<"data", "blob.bin">> -> <<255, 1>>
                    [] p = <<"aegisblade_lib", "liba-1.0.0.tgz">> -> <<31, 1>>
                    [] OTHER -> <<100>>],
     cache |-> { <<"index.js">>, <<"..", "other", "x.js">> }]

FileSystems == {FsPlain, FsOdd}

\* what a configured library path can hold
LibraryKinds == {"missing", "file", "noPackageJson", "packageJsonIsDir",
                 "badJson", "noName", "ok"}

\* the library paths of the model, with what is on disk there and, for a
\* well-formed one, the name in its package.json and the archive npm pack
\* writes for it
Libraries ==
    [ libA |-> [kind |-> "ok", name |-> "liba", archive |-> "liba-1.0.0.tgz",
                bytes |-> <<31, 139>>],
      libB |-> [kind |-> "ok", name |-> "libb", archive |-> "libb-1.0.0.tgz",
                bytes |-> <<31, 140>>],
      gone |-> [kind |-> "missing", name |-> NULL, archive |-> NULL, bytes |-> <<>>],
      afile |-> [kind |-> "file", name |-> NULL, archive |-> NULL, bytes |-> <<>>],
      bare |-> [kind |-> "noPackageJson", name |-> NULL, archive |-> NULL, bytes |-> <<>>],
      pdir |-> [kind |-> "packageJsonIsDir", name |-> NULL, archive |-> NULL, bytes |-> <<>>],
      junk |-> [kind |-> "badJson", name |-> NULL, archive |-> NULL, bytes |-> <<>>],
      anon |-> [kind |-> "noName", name |-> NULL, archive |-> NULL, bytes |-> <<>>] ]

\* listFiles(extensions, dir): every file below dir (all of them for "*",
\* else those with a listed extension; the model's only extension is ".js")
IsPrefix(d, p) == Len(d) < Len(p) /\ SubSeq(p, 1, Len(d)) = d
listFiles(onlyJs, dir, fsys) ==
    {p \in DOMAIN fsys.files : IsPrefix(dir, p) /\ (onlyJs => IsJsFile(p))}

\* fs.statSync(p): "file", "dir" or "ENOENT"
StatSync(p, fsys) ==
    IF p \in DOMAIN fsys.files THEN "file"
    ELSE IF p = <<>> \/ \E q \in DOMAIN fsys.files : IsPrefix(p, q) THEN "dir"
    ELSE "ENOENT"

\* a set as a sequence without repetition, in the order the runtime
\* enumerates it (readdir order, insertion order of require.cache)
RECURSIVE SetToSeq(_)
SetToSeq(S) ==
    IF S = {} THEN <<>>
    ELSE LET x == CHOOSE y \in S : TRUE IN <<x>> \o SetToSeq(S \ {x})

\* a collector that keeps a list of paths in place of allModulesSet
AddKeysToList(keys, more) == keys \o more

\* allModulesSet[key] = true for each key of a sequence, in order:
\* Object.keys keeps first-insertion order and every key once
RECURSIVE AddKeys(_, _)
AddKeys(keys, more) ==
    IF more = <<>> THEN keys
    ELSE AddKeys(IF Head(more) \in Range(keys) THEN keys
                 ELSE Append(keys, Head(more)), Tail(more))

\* ------------------------------------------------------------------------
\* Function Locator (targetFunc.js)
\* ------------------------------------------------------------------------
\* function values: identity (reference) and .name
fHello == [id |-> "f1", name |-> "helloWorld", isFunction |-> TRUE]
fHelper == [id |-> "f2", name |-> "helper", isFunction |-> TRUE]
fLocal == [id |-> "f3", name |-> "local", isFunction |-> TRUE]
notAFunction == [id |-> "s", name |-> NULL, isFunction |-> FALSE]
Targets == {fHello, fHelper, fLocal, notAFunction}

\* the module graphs of the model: filename -> module {exports, parent,
\* children}; exports maps export names to function ids.  Every search
\* starts at "client.js" (module.parent of targetFunc.js).
NoExports == [n \in {} |-> ""]
\* a tree: main.js requires the client and util.js
GraphTree ==
    [ f \in {"client.js", "main.js", "util.js"} |->
        CASE f = "client.js" ->
               [exports |-> NoExports, parent |-> "main.js", children |-> <<>>]
          [] f = "main.js" ->
               [exports |-> [helloWorld |-> "f1"], parent |-> NULL,
                children |-> <<"client.js", "util.js">>]
          [] OTHER ->
               [exports |-> [helper |-> "f2"], parent |-> "main.js",
                children |-> <<>>] ]

\* util.js is a child of two modules, and exports helper as "run"
GraphShared ==
    [ f \in {"client.js", "main.js", "util.js"} |->
        CASE f = "client.js" ->
               [exports |-> NoExports, parent |-> "main.js",
                children |-> <<"util.js">>]
          [] f = "main.js" ->
               [exports |-> [helloWorld |-> "f1"], parent |-> NULL,
                children |-> <<"client.js", "util.js">>]
          [] OTHER ->
               [exports |-> [run |-> "f2"], parent |-> "client.js",
                children |-> <<>>] ]

\* a cycle: main.js and util.js require each other
GraphCycle ==
    [ f \in {"client.js", "main.js", "util.js"} |->
        CASE f = "client.js" ->
               [exports |-> NoExports, parent |-> "main.js", children |-> <<>>]
          [] f = "main.js" ->
               [exports |-> NoExports, parent |-> NULL,
                children |-> <<"client.js", "util.js">>]
          [] OTHER ->
               [exports |-> [helloWorld |-> "f1"], parent |-> "main.js",
                children |-> <<"main.js">>] ]

ModuleGraphs == {GraphTree, GraphShared, GraphCycle}

StartModule == "client.js"

\* a search without the inner loop
SkipNothing(currentModule, searchQueue, visited) ==
    [undefined |-> FALSE, currentModule |-> currentModule,
     searchQueue |-> searchQueue]

\* the inner loop: while (visited[currentModule.filename] === true)
\*                     currentModule = searchQueue.shift();
\* shift() of an empty queue yields undefined, whose .filename throws
RECURSIVE SkipVisited(_, _, _)
SkipVisited(currentModule, searchQueue, visited) ==
    IF currentModule \notin visited
    THEN [undefined |-> FALSE, currentModule |-> currentModule,
          searchQueue |-> searchQueue]
    ELSE IF searchQueue = <<>>
         THEN [undefined |-> TRUE, currentModule |-> NULL, searchQueue |-> <<>>]
         ELSE SkipVisited(Head(searchQueue), Tail(searchQueue), visited)

\* the outer loop of searchForTargetFunctionModule; `tested` lists the
\* modules whose exports were compared with the target, in order
RECURSIVE SearchLoop(_, _, _, _, _)
SearchLoop(g, searchQueue, visited, tested, targetFunction) ==
    IF searchQueue = <<>>
    THEN [kind |-> "notFound", module |-> NULL, tested |-> tested]
    ELSE LET sk == SkipVisited(Head(searchQueue), Tail(searchQueue), visited) IN
         IF sk.undefined
         THEN [kind |-> "typeError", module |-> NULL, tested |-> tested]
         ELSE LET cur == sk.currentModule
                  m == g[cur]
                  vis == visited \cup {cur}
                  withParent ==
                      IF m.parent # NULL /\ m.parent \notin vis
                      THEN Append(sk.searchQueue, m.parent)
                      ELSE sk.searchQueue
                  kids == SelectSeq(m.children, LAMBDA c : c \notin vis)
              IN IF \E n \in DOMAIN m.exports : m.exports[n] = targetFunction.id
                 THEN [kind |-> "found", module |-> cur,
                       tested |-> Append(tested, cur)]
                 ELSE SearchLoop(g, withParent \o kids, vis,
                                 Append(tested, cur), targetFunction)

searchForTargetFunctionModule(g, targetFunction) ==
    SearchLoop(g, <<StartModule>>, {}, <<>>, targetFunction)

\* targetFunctionComponents: {file, relFile, name}.  Module files live in
\* the working directory, so the absolute path is cwd + the file name.
Cwd == <<"/", "proj">>
targetFunctionComponents(g, targetFunction) ==
    LET r == searchForTargetFunctionModule(g, targetFunction) IN
    IF r.kind = "found"
    THEN [kind |-> "found", file |-> Cwd \o <<r.module>>,
          relFile |-> <<r.module>>, name |-> targetFunction.name]
    ELSE [kind |-> r.kind, file |-> <<>>, relFile |-> <<>>, name |-> NULL]

\* ------------------------------------------------------------------------
\* JobConfig (jobConfig.js, util/merge.js, env.js)
\* ------------------------------------------------------------------------
DefaultJobConfig ==
    [memory |-> NULL,
     extraFiles |-> <<>>,
     libraries |-> <<>>,
     capabilities |-> <<>>,
     host |-> [driver |-> "ec2",
               affinity |-> NULL,
               options |-> [instanceType |-> NULL, region |-> NULL,
                            useSpotInstance |-> TRUE, maxSpotPrice |-> NULL]]]

\* the keys whose values are plain (non-array) objects: isObject(source[key])
ObjectKeys == {"host", "options"}
EmptyObject == [k \in {} |-> NULL]

\* a merge that copies nothing
mergeNothing(target, source) == target

\* mergeDeep(target, source): keys of source are copied over target, objects
\* are merged key by key, everything else (arrays too) is assigned
RECURSIVE mergeDeep(_, _)
mergeDeep(target, source) ==
    [k \in DOMAIN target \cup DOMAIN source |->
        IF k \notin DOMAIN source THEN target[k]
        ELSE IF k \in ObjectKeys
             THEN mergeDeep(IF k \in DOMAIN target THEN target[k] ELSE EmptyObject,
                            source[k])
             ELSE source[k]]

\* the environments of the model: env.js reads process.env once.
\* libraries is AEGISBLADE_LIBRARIES after split(":"), <<>> when unset.
EnvNone == [apiKey |-> NULL, defaultHostdriver |-> NULL, libraries |-> <<>>]
EnvKey == [apiKey |-> "key", defaultHostdriver |-> NULL, libraries |-> <<>>]
EnvFull == [apiKey |-> "key", defaultHostdriver |-> "docker", libraries |-> <<"libB">>]
Envs == {EnvNone, EnvKey, EnvFull}

\* new JobConfig(config)
JobConfigFrom(defaultJobConfig, config, e) ==
    LET defaults == IF e.defaultHostdriver # NULL
                    THEN [defaultJobConfig EXCEPT !.host.driver = e.defaultHostdriver]
                    ELSE defaultJobConfig
        merged == mergeDeep(defaults, config)
    IN [merged EXCEPT !.libraries = merged.libraries \o e.libraries]

\* with the object DefaultJobConfig() returns
JobConfig(config, e) == JobConfigFrom(DefaultJobConfig, config, e)

\* the configurations callers pass to run; EmptyObject stands for none
CallerConfigs ==
    {EmptyObject}
    \cup {[libraries |-> ls] : ls \in
            { <<"libA">>, <<"libA", "libB">>, <<"libA", "libA">>, <<"gone">>,
              <<"afile">>, <<"bare">>, <<"pdir">>, <<"junk">>, <<"anon">>,
              <<"libB", "gone">>, <<"libA", "anon">> }}
    \cup {[extraFiles |-> xs] : xs \in
            { << <<"data", "blob.bin">> >>, << <<"data">> >>,
              << <<".", "data", "..", "index.js">> >>, << <<"nope.txt">> >> }}
    \cup {[libraries |-> <<"libA">>, extraFiles |-> << <<"aegisblade_lib">> >>]}
    \cup {[memory |-> "512", host |-> [affinity |-> "gpu"]]}
    \cup {[capabilities |-> <<"chrome">>,
           host |-> [driver |-> "local", options |-> [region |-> "eu"]]]}

\* obj[key] = value, the key made if it is not there
SetKey(obj, key, value) ==
    [k \in DOMAIN obj \cup {key} |-> IF k = key THEN value ELSE obj[k]]

\* the with* methods of JobConfig, on the value of the instance
withMemory(cfg, memory) == [cfg EXCEPT !.memory = memory]
withExtraFile(cfg, extraFilePath) ==
    [cfg EXCEPT !.extraFiles = Append(@, extraFilePath)]
withLibrary(cfg, libraryPath) == [cfg EXCEPT !.libraries = Append(@, libraryPath)]
withHostDriver(cfg, hostDriver, hostDriverOptions) ==
    [cfg EXCEPT !.host.driver = hostDriver,
                !.host.options = mergeDeep(@, hostDriverOptions)]
withHostAffinity(cfg, hostAffinity) ==
    [cfg EXCEPT !.host = SetKey(@, "hostAffinity", hostAffinity)]
withCapability(cfg, capability) ==
    [cfg EXCEPT !.capabilities = Append(@, capability)]

\* the JobConfig instances callers build and pass to run, in environment e
BuiltConfigs(e) ==
    {withHostAffinity(withMemory(JobConfig(EmptyObject, e), "512"), "gpu")}

\* ------------------------------------------------------------------------
\* Library Packager (models.js: getLibraryInfos)
\* ------------------------------------------------------------------------
\* mutant: package.json is not checked to be a file, nor parsed
LibraryCheckErrorNoManifest(library) ==
    LET k == Libraries[library].kind IN
    CASE k = "missing" -> "Library directory was not found"
      [] k = "file" -> "Specified library path is not a directory"
      [] k = "noPackageJson" ->
             "Library directory does not include a 'package.json' file"
      [] OTHER -> NULL

\* a packager that looks for package.json before it checks the directory
LibraryCheckErrorManifestFirst(library) ==
    LET k == Libraries[library].kind IN
    CASE k = "missing" -> "Library directory was not found"
      [] k \in {"file", "noPackageJson", "packageJsonIsDir"} ->
             "Library directory does not include a 'package.json' file"
      [] k = "badJson" -> "Unable to parse library's package.json"
      [] k = "noName" -> "Library's package.json has no 'name' property."
      [] OTHER -> NULL

\* the checks made for one library before npm pack is started: the error
\* thrown, or NULL when all pass
LibraryCheckError(library) ==
    LET k == Libraries[library].kind IN
    CASE k = "missing" -> "Library directory was not found"
      [] k = "file" -> "Specified library path is not a directory"
      [] k \in {"noPackageJson", "packageJsonIsDir"} ->
             "Library directory does not include a 'package.json' file"
      [] k = "badJson" -> "Unable to parse library's package.json"
      [] k = "noName" -> "Library's package.json has no 'name' property."
      [] OTHER -> NULL

\* the ${library} of the message of that error, NULL when it has none
LibraryCheckErrorPath(library) ==
    IF Libraries[library].kind \in {"ok", "noName"} THEN NULL ELSE library

\* path.join("aegisblade_lib", libraryArchive)
LibraryDir == "aegisblade_lib"

\* path.dirname(await createTempFile()): a fresh temporary directory, the
\* n-th the process makes (/tmp/t, /tmp/t/t, ...)
TempDir(n) == <<"/", "tmp">> \o [k \in 1..n |-> "t"]

\* the libraryInfo built once npm pack has written the archive to tempDir
LibraryInfo(library, tempDir) ==
    LET lib == Libraries[library]
    IN [packageName |-> lib.name,
        archiveContextFile |->
            ApplicationContextFile(PathJoin(tempDir, <<lib.archive>>),
                                   PathJoin(<<LibraryDir>>, <<lib.archive>>),
                                   Sha256(lib.bytes), Len(lib.bytes), lib.bytes)]

\* libraryInfos[libraryInfo.packageName] = libraryInfo: a property keeps
\* its place when it is assigned again
PutLibraryInfo(libraryInfos, info) ==
    IF \E k \in 1..Len(libraryInfos) : libraryInfos[k].packageName = info.packageName
    THEN [k \in 1..Len(libraryInfos) |->
             IF libraryInfos[k].packageName = info.packageName
             THEN info ELSE libraryInfos[k]]
    ELSE Append(libraryInfos, info)

\* ------------------------------------------------------------------------
\* Dependencies (models.js: ApplicationPackageInfo.collect)
\* ------------------------------------------------------------------------
\* what `npm list --depth=0 --json` can print: name -> {version, missing}
NpmListOutputs ==
    { [n \in {} |-> NULL],
      [express |-> [version |-> "4.0.0", missing |-> FALSE],
       liba |-> [version |-> "1.0.0", missing |-> FALSE],
       filter |-> [version |-> "1.0.1", missing |-> FALSE]],
      [lost |-> [version |-> NULL, missing |-> TRUE]] }

\* libraryInfos is an array (let libraryInfos = []) that getLibraryInfos
\* gives one property per package name; reading any other name from it
\* finds what Array.prototype holds under that name. These are the package
\* names of the model that name a method of arrays.
InheritedArrayProperties == {"filter"}

\* if (libraryInfos[npmPackageName]): the value read is truthy
HasLibraryInfo(libraryInfos, npmPackageName) ==
    \/ \E k \in 1..Len(libraryInfos) : libraryInfos[k].packageName = npmPackageName
    \/ npmPackageName \in InheritedArrayProperties

\* the loop over Object.keys(dependencies): the thrown error or the list
PackageInfos(dependencies, libraryInfos) ==
    IF \E n \in DOMAIN dependencies : dependencies[n].missing
    THEN [ok |-> FALSE, packages |-> <<>>]
    ELSE [ok |-> TRUE,
          packages |->
            SetToSeq({[name |-> n, version |-> dependencies[n].version] :
                        n \in {m \in DOMAIN dependencies :
                                 ~HasLibraryInfo(libraryInfos, m)}})]

\* ------------------------------------------------------------------------
\* File Collector (models.js: ApplicationContextFile.collect)
\* ------------------------------------------------------------------------
\* the keys added for one extra file; ok is FALSE when statSync throws
ExtraFileKeys(extraFile, fsys) ==
    LET relativePath == PathRelative(extraFile)
        st == StatSync(relativePath, fsys)
    IN IF st = "ENOENT" THEN [ok |-> FALSE, keys |-> <<>>]
       ELSE IF st = "dir"
            THEN [ok |-> TRUE,
                  keys |-> SetToSeq({PathRelative(f) :
                                       f \in listFiles(FALSE, relativePath, fsys)})]
            ELSE [ok |-> TRUE, keys |-> <<relativePath>>]

RECURSIVE ExtraKeys(_, _, _)
ExtraKeys(keys, extraFiles, fsys) ==
    IF extraFiles = <<>> THEN [ok |-> TRUE, keys |-> keys]
    ELSE LET r == ExtraFileKeys(Head(extraFiles), fsys) IN
         IF ~r.ok THEN [ok |-> FALSE, keys |-> keys]
         ELSE ExtraKeys(AddKeys(keys, r.keys), Tail(extraFiles), fsys)

\* Object.keys(allModulesSet) after the extra files, the required modules
\* and the ".js" files below cwd were added
allModules(extraFiles, fsys) ==
    LET ex == ExtraKeys(<<>>, extraFiles, fsys)
        cached == AddKeys(ex.keys, SetToSeq({PathRelative(m) : m \in fsys.cache}))
        listed == AddKeys(cached,
                          SetToSeq({PathRelative(f) : f \in listFiles(TRUE, <<>>, fsys)}))
    IN [ok |-> ex.ok, keys |-> listed]

filteredModules(keys) ==
    SelectSeq(keys, LAMBDA elem : ~ExcludedPattern(PathRelative(elem)))

\* the ContextFiles collect returns when every read succeeds
collect(extraFiles, libraryInfos, fsys) ==
    LET paths == filteredModules(allModules(extraFiles, fsys).keys) IN
    [k \in 1..Len(paths) |-> CollectedFile(paths[k], fsys.files[paths[k]])]
    \o [k \in 1..Len(libraryInfos) |-> libraryInfos[k].archiveContextFile]

\* ------------------------------------------------------------------------
\* Payload Builder (models.js)
\* ------------------------------------------------------------------------
\* a toJSON that filters nothing
FileToJSONUnfiltered(f) == f

\* ApplicationContextFile.toJSON: every key but fileContents
FileToJSON(f) == [k \in DOMAIN f \ {"fileContents"} |-> f[k]]

HostDefinition(jobConfigHost) ==
    [driver |-> jobConfigHost.driver,
     hostAffinity |-> jobConfigHost.affinity,
     driverOptions |-> [instanceType |-> jobConfigHost.options.instanceType,
                        region |-> jobConfigHost.options.region,
                        useSpotInstance |-> jobConfigHost.options.useSpotInstance,
                        maxSpotPrice |-> jobConfigHost.options.maxSpotPrice]]

\* JSON.stringify(new CreateApplicationPayload(packages, files, jobConfig))
CreateApplicationPayload(applicationPackages, applicationFiles, jobConfig) ==
    [applicationExecutionContext |->
        [language |-> "nodejs",
         packages |-> applicationPackages,
         files |-> [k \in 1..Len(applicationFiles) |-> FileToJSON(applicationFiles[k])]],
     hostDefinition |-> HostDefinition(jobConfig.host),
     capabilities |-> jobConfig.capabilities]

\* JSON.stringify(new UploadFilePayload(appFile, fileContents, applicationId))
UploadFilePayload(applicationContextFile, fileContents, applicationId) ==
    [applicationContextFile |-> FileToJSON(applicationContextFile),
     fileContents |-> fileContents,
     applicationGuid |-> applicationId]

CreateJobPayload(applicationId, serializedJobEntrypoint, jobType, memoryMb, jobConfigHost) ==
    [applicationId |-> applicationId,
     serializedJobEntrypoint |-> serializedJobEntrypoint,
     jobType |-> jobType,
     memoryMb |-> memoryMb,
     scheduledJobCrontab |-> NULL,
     hostDefinition |-> HostDefinition(jobConfigHost)]

\* JSON.stringify(entrypoint): a property whose value is undefined is left out
Undefined == [defined |-> FALSE, value |-> <<>>]
Defined(v) == [defined |-> TRUE, value |-> v]
JsonStringify(obj) ==
    <<"json", [k \in {j \in DOMAIN obj : obj[j].defined} |-> obj[k].value]>>

\* the args callers pass to run
CallerArgs == {Undefined, Defined(<<>>), Defined(<<1>>)}

\* safeJobConfig.memoryMb || null
MemoryMb(safeJobConfig) ==
    IF "memoryMb" \in DOMAIN safeJobConfig THEN safeJobConfig.memoryMb ELSE NULL

\* ------------------------------------------------------------------------
\* State
\* ------------------------------------------------------------------------
VARIABLES
    env,        \* env.js: the environment read when the library is loaded
    fsys,       \* the file system and require.cache
    modules,    \* the module graph of the process
    apikey,     \* AegisBladeClient.apikey
    run,        \* the locals and position of the run call
    net,        \* requests sent and responses received by the Api, in order
    finalStatusResult,  \* Job.finalStatusResult
    finalWrites,        \* history: the values assigned to finalStatusResult
    calls,      \* the calls made on the Job handle: position and locals
    now,        \* new Date().getTime(), saturating at MaxTime
    failures,   \* transport failures injected so far
    reported,   \* the jobStatus the server reports at present
    configs,    \* the JobConfig instances the program has constructed
    heap,       \* the arrays and host objects those instances refer to
    withCalls,  \* with* calls made so far
    endpoint,   \* AegisBladeClient.endpoint
    api,        \* the Api object of the client: apiKey and apiEndpoint
    ops,        \* the Api operations started: position, locals, and the
                \* requests sent and responses received (wire), in order
    sets,       \* setApiKey / setEndpoint calls made so far
    procs       \* the child processes runInProcess has spawned

runVars == <<env, fsys, modules, apikey, run, net>>
jobVars == <<finalStatusResult, finalWrites, calls, now, failures, reported>>
cfgVars == <<configs, heap, withCalls>>
apiVars == <<endpoint, api, ops, sets>>
procVars == <<procs>>
vars == <<runVars, jobVars, cfgVars, apiVars, procVars>>

\* no JobConfig instance has been constructed
NoConfigs ==
    /\ configs = <<>>
    /\ heap = [id \in {} |-> <<>>]
    /\ withCalls = 0

\* client.js: DEFAULT_API_ENDPOINT, and another endpoint to set
DefaultApiEndpoint == "https://www.aegisblade.com"
Endpoints == {DefaultApiEndpoint, "http://localhost:8080"}
\* the keys given to setApiKey
ApiKeys == {"key", "key2"}

\* apiEndpoint + "/api/v1"
ApiEndpoint(apiEndpoint) == <<apiEndpoint, "/api/v1">>

\* new Api(apiKey, apiEndpoint, verifySsl)
NewApi(apiKey, apiEndpoint) ==
    [apiKey |-> apiKey, apiEndpoint |-> ApiEndpoint(apiEndpoint)]

\* the AegisBladeClient constructor with AEGISBLADE_API_ENDPOINT unset: no
\* operation has been started
ApiConstructed ==
    /\ endpoint = DefaultApiEndpoint
    /\ api = NewApi(apikey, endpoint)
    /\ ops = <<>>
    /\ sets = 0

NoResponse == [applicationId |-> NULL, fileHashesRequiringUpload |-> <<>>]
NoJob == [id |-> NULL, applicationId |-> NULL, jobType |-> NULL]

\* before the function search has run
NoSearch == [kind |-> "none", module |-> NULL, tested |-> <<>>]
NoComponents == [kind |-> "none", file |-> <<>>, relFile |-> <<>>, name |-> NULL]

RunIdle ==
    [op |-> "none",      \* "run" or "getUploadFiles"
     pc |-> "idle", err |-> NULL,
     collected |-> <<>>, \* history: what each file collection returned
     tempFiles |-> 0,    \* createTempFile calls made so far
     uploadFiles |-> <<>>,   \* the paths getUploadFiles returned
     errPath |-> NULL,   \* the path a library error names
     faults |-> {},   \* history: the failures the environment has produced
     targetFunction |-> notAFunction, args |-> Undefined,
     jobConfig |-> EmptyObject,    \* the jobConfig argument
     search |-> NoSearch,          \* what searchForTargetFunctionModule did
     components |-> NoComponents,  \* what targetFunctionComponents returned
     safeJobConfig |-> DefaultJobConfig,
     serializedEntrypoint |-> <<>>,
     libIdx |-> 0, libraryInfos |-> <<>>,
     dependencies |-> EmptyObject,   \* history: what npm list printed
     applicationPackages |-> <<>>, applicationFiles |-> <<>>,
     createApplicationResponse |-> NoResponse,
     uploadIdx |-> 0, job |-> NoJob]

\* ------------------------------------------------------------------------
\* Job handle (job.js): values
\* ------------------------------------------------------------------------
\* the jobStatus values the server answers with, in the letter case it uses
NonTerminalStatuses == {"Running"}
TerminalStatuses == {"Finished", "canceled", "ERROR"}
Statuses == NonTerminalStatuses \cup TerminalStatuses

\* a comparison that keeps the letter case of the status
KeepCase(str) == str

\* String.prototype.toLowerCase on those values
ToLowerCase(str) ==
    CASE str = "Running" -> "running"
      [] str = "Finished" -> "finished"
      [] str = "ERROR" -> "error"
      [] OTHER -> str

finalStates == {"finished", "canceled"}
errorStates == {"error"}

\* a statusResult as the API returns it; finalStatusResult = null
StatusResult(jobStatus) == [jobStatus |-> jobStatus]
NullResult == [jobStatus |-> NULL]

\* this.finalStates.includes(statusResult.jobStatus.toLowerCase())
IsFinalState(statusResult) == ToLowerCase(statusResult.jobStatus) \in finalStates
\* this.errorStates.includes(statusResult.jobStatus.toLowerCase())
IsErrorState(statusResult) == ToLowerCase(statusResult.jobStatus) \in errorStates

Calls == 1..MaxCalls
Ops == {"getStatus", "isCompleted", "wait", "getReturnValue", "getLogs"}
\* the expiration arguments of wait and getReturnValue; 0 stands for none
\* (null and 0 are both falsy)
Expirations == {0, 1, 700}
\* the retries arguments of getStatus
RetriesChoices == {0, 1, DefaultRetries}

NoValue == [kind |-> "none", value |-> NULL]
CallIdle ==
    [op |-> "none", pc |-> "idle",
     expiration |-> 0, startTime |-> 0, wakeAt |-> 0,
     retries |-> 0, i |-> 0, j |-> 0,
     result |-> NoValue, err |-> NULL,
     \* history of the call
     cachedAtCall |-> NullResult,  \* finalStatusResult when the call began
     did |-> {},                   \* the awaits it has started, see Awaits
     lastFailure |-> NULL,         \* how its last status request failed
     timedOutAt |-> 0]             \* the clock when it threw the timeout error

\* what a call awaits: the three requests and timeout(700)
Awaits == {"status", "sleep", "returnValue", "logs"}

Worlds ==
    { [env |-> EnvNone, fsys |-> FsPlain, modules |-> GraphTree],
      [env |-> EnvKey, fsys |-> FsPlain, modules |-> GraphTree],
      [env |-> EnvKey, fsys |-> FsOdd, modules |-> GraphShared],
      [env |-> EnvFull, fsys |-> FsPlain, modules |-> GraphCycle] }

Init ==
    /\ \E w \in Worlds : env = w.env /\ fsys = w.fsys /\ modules = w.modules
    /\ apikey = env.apiKey
    /\ run = RunIdle
    /\ net = <<>>
    /\ finalStatusResult = NullResult
    /\ finalWrites = <<>>
    /\ calls = [c \in Calls |-> CallIdle]
    /\ now = 0
    /\ failures = 0
    /\ reported \in NonTerminalStatuses
    /\ NoConfigs
    /\ ApiConstructed
    /\ procs = <<>>

Throw(r, e) == [r EXCEPT !.pc = "threw", !.err = e]

\* the error of line 54 of targetFunc.js, by the fixed part of its message,
\* and the TypeError of reading .filename of undefined
NotFoundError == "Unable to find module for target function"
TypeError == "TypeError: Cannot read property 'filename' of undefined"
Fault(r, f) == [r EXCEPT !.faults = @ \cup {f}]

\* lines 258-280 of client.js: the checks, the JobConfig, the function
\* search and the entrypoint, up to the call of getLibraryInfos
RunCall(targetFunction, args, jobConfig) ==
    /\ run.pc = "idle"
    /\ LET tfc == targetFunctionComponents(modules, targetFunction)
           called == [run EXCEPT !.op = "run",
                                 !.targetFunction = targetFunction, !.args = args,
                                 !.jobConfig = jobConfig]
           searched ==
               [called EXCEPT
                  !.safeJobConfig = JobConfig(jobConfig, env),
                  !.search = searchForTargetFunctionModule(modules, targetFunction),
                  !.components = tfc]
       IN run' =
            IF ~targetFunction.isFunction
            THEN Throw(called, "targetFunction parameter must be a function")
            ELSE IF apikey = NULL
            THEN Throw(called, "The ApiKey was not specified")
            ELSE IF tfc.kind = "notFound"
            THEN Throw(searched, NotFoundError)
            ELSE IF tfc.kind = "typeError"
            THEN Throw(searched, TypeError)
            ELSE [searched EXCEPT
                    !.pc = "libraries",
                    !.serializedEntrypoint =
                        JsonStringify([functionModuleFile |-> Defined(tfc.relFile),
                                       functionName |-> Defined(tfc.name),
                                       functionArguments |-> args]),
                    !.libIdx = 1]
    /\ UNCHANGED <<env, fsys, modules, apikey, net>>
    /\ UNCHANGED <<jobVars, cfgVars, apiVars, procVars>>

\* client.js lines 151-157: getUploadFiles(jobConfig) up to the call of
\* getLibraryInfos; it may be called again once it has returned
GetUploadFilesCall(jobConfig) ==
    /\ \/ run.pc = "idle"
       \/ run.pc = "listed" /\ Len(run.collected) < MaxCollections
    /\ run' = [RunIdle EXCEPT !.op = "getUploadFiles",
                              !.collected = run.collected,
                              !.tempFiles = run.tempFiles,
                              !.jobConfig = jobConfig,
                              !.safeJobConfig = JobConfig(jobConfig, env),
                              !.pc = "libraries",
                              !.libIdx = 1]
    /\ UNCHANGED <<env, fsys, modules, apikey, net>>
    /\ UNCHANGED <<jobVars, cfgVars, apiVars, procVars>>

\* getLibraryInfos, one library: the checks of lines 166-209, after which
\* npm pack is started; after the last library run starts npm list and
\* getUploadFiles goes on to collect
LibraryChecks ==
    /\ run.pc = "libraries"
    /\ LET libraries == run.safeJobConfig.libraries IN
       run' = IF run.libIdx > Len(libraries)
              THEN [run EXCEPT !.pc = IF run.op = "run" THEN "npmList"
                                      ELSE "collect"]
              ELSE LET e == LibraryCheckError(libraries[run.libIdx]) IN
                   IF e # NULL
                   THEN Throw([run EXCEPT !.errPath =
                                  LibraryCheckErrorPath(libraries[run.libIdx])], e)
                   ELSE [run EXCEPT !.pc = "npmPack"]
    /\ UNCHANGED <<env, fsys, modules, apikey, net>>
    /\ UNCHANGED <<jobVars, cfgVars, apiVars, procVars>>

\* what npm pack and the read of its archive can do: the process exits
\* non-zero, prints JSON or (old npm) the bare file name, or the archive
\* cannot be read
NpmPackOutcomes == {"exitNonZero", "json", "text", "readError"}

\* whether lines 215-238 throw: await npmPackPromise rejects when the
\* process fails, await readFile when the archive cannot be read
npmPackThrows(outcome) == outcome \in {"exitNonZero", "readError"}

\* lines 215-257: await npm pack, read the archive, record the libraryInfo
NpmPack(outcome) ==
    /\ run.pc = "npmPack"
    /\ run' = IF npmPackThrows(outcome)
              THEN Throw(Fault([run EXCEPT !.tempFiles = @ + 1], outcome),
                         "npm pack failed")
              ELSE [run EXCEPT
                      !.tempFiles = @ + 1,
                      !.libraryInfos =
                          PutLibraryInfo(@, LibraryInfo(run.safeJobConfig.libraries[run.libIdx],
                                                       TempDir(run.tempFiles + 1))),
                      !.libIdx = @ + 1,
                      !.pc = "libraries"]
    /\ UNCHANGED <<env, fsys, modules, apikey, net>>
    /\ UNCHANGED <<jobVars, cfgVars, apiVars, procVars>>

\* lines 81-89: the npm list promise rejects on a non-zero exit and
\* collect rethrows
npmListThrows(exitCode) == exitCode # 0

\* ApplicationPackageInfo.collect: await npm list, then the dependency loop
NpmList(exitCode, dependencies) ==
    /\ run.pc = "npmList"
    /\ LET infos == PackageInfos(dependencies, run.libraryInfos) IN
       run' = IF npmListThrows(exitCode)
              THEN Throw(Fault(run, "npmList"),
                         "Error while collecting application packages")
              ELSE IF ~infos.ok THEN Throw(run, "package is missing")
              ELSE [run EXCEPT !.applicationPackages = infos.packages,
                               !.dependencies = dependencies,
                               !.pc = "collect"]
    /\ UNCHANGED <<env, fsys, modules, apikey, net>>
    /\ UNCHANGED <<jobVars, cfgVars, apiVars, procVars>>

Request(op, payload) == [dir |-> "request", op |-> op, payload |-> payload]
Response(op, body) == [dir |-> "response", op |-> op, payload |-> body]

\* mutant: every collected file is uploaded, whatever the server lists
uploadFileHashesAll(createApplicationResponse, applicationFiles) ==
    [k \in 1..Len(applicationFiles) |-> applicationFiles[k].fileHash]

\* the hashes the upload loop of run iterates over (client.js line 300)
uploadFileHashes(createApplicationResponse, applicationFiles) ==
    createApplicationResponse.fileHashesRequiringUpload

\* applicationFiles.find(f => f.fileHash === uploadFileHash): 0 for undefined
FindFile(applicationFiles, uploadFileHash) ==
    IF \E k \in 1..Len(applicationFiles) : applicationFiles[k].fileHash = uploadFileHash
    THEN CHOOSE k \in 1..Len(applicationFiles) :
            /\ applicationFiles[k].fileHash = uploadFileHash
            /\ \A j \in 1..(k - 1) : applicationFiles[j].fileHash # uploadFileHash
    ELSE 0

\* mutant: the id is read from a property the response does not have
PayloadApplicationIdUndefined(createApplicationResponse) == NULL

\* the applicationId put in the upload-file and create-job payloads
PayloadApplicationId(createApplicationResponse) ==
    createApplicationResponse.applicationId

\* lines 300-317 from iteration idx of the upload loop to the next request:
\* the next upload-file request, or after the loop the create-job request
NextRequest(r, n, idx) ==
    LET hashes == uploadFileHashes(r.createApplicationResponse, r.applicationFiles)
        appId == PayloadApplicationId(r.createApplicationResponse)
    IN IF idx > Len(hashes)
       THEN [run |-> [r EXCEPT !.pc = "createJob", !.uploadIdx = idx],
             net |-> Append(n, Request("createJob",
                        CreateJobPayload(appId, r.serializedEntrypoint, "instant",
                                         MemoryMb(r.safeJobConfig),
                                         r.safeJobConfig.host)))]
       ELSE LET k == FindFile(r.applicationFiles, hashes[idx]) IN
            IF k = 0
            THEN [run |-> Throw([r EXCEPT !.uploadIdx = idx], "TypeError"), net |-> n]
            ELSE [run |-> [r EXCEPT !.pc = "uploadFile", !.uploadIdx = idx],
                  net |-> Append(n, Request("uploadFile",
                             UploadFilePayload(r.applicationFiles[k],
                                               r.applicationFiles[k].fileContents,
                                               appId)))]

\* mutant: a file that cannot be read is skipped
collectThrowsSkipsUnreadable(readError, extraFiles, fsys_) ==
    ~allModules(extraFiles, fsys_).ok

\* whether ApplicationContextFile.collect throws: statSync of an extra file
\* fails, or a read fails (await readFile propagates the error)
collectThrows(readError, extraFiles, fsys_) ==
    \/ ~allModules(extraFiles, fsys_).ok
    \/ readError
    \/ \E p \in Range(filteredModules(allModules(extraFiles, fsys_).keys)) :
          p \notin DOMAIN fsys_.files

\* a getUploadFiles that goes on as run does
SendsAlways(op) == TRUE

\* run builds the create-application payload and sends it (lines 284-291);
\* getUploadFiles returns the paths (line 157)
SendsCreateApplication(op) == op = "run"

\* ApplicationContextFile.collect, then the create-application request of
\* run or the return of getUploadFiles
CollectFiles(readError) ==
    /\ run.pc = "collect"
    /\ LET extraFiles == run.safeJobConfig.extraFiles
           r == IF readError THEN Fault(run, "readFile") ELSE run
       IN
       IF collectThrows(readError, extraFiles, fsys)
       THEN /\ run' = Throw(r, "collect failed")
            /\ net' = net
       ELSE LET files == collect(extraFiles, run.libraryInfos, fsys)
                done == [r EXCEPT !.applicationFiles = files,
                                  !.collected = Append(@, [jobConfig |-> run.jobConfig,
                                                           files |-> files])]
            IN IF SendsCreateApplication(run.op)
               THEN /\ run' = [done EXCEPT !.pc = "createApplication"]
                    /\ net' = Append(net, Request("createApplication",
                                 CreateApplicationPayload(run.applicationPackages,
                                                          files, run.safeJobConfig)))
               ELSE /\ run' = [done EXCEPT
                                  !.pc = "listed",
                                  !.uploadFiles =
                                      [k \in 1..Len(files) |-> files[k].filePath]]
                    /\ net' = net
    /\ UNCHANGED <<env, fsys, modules, apikey>>
    /\ UNCHANGED <<jobVars, cfgVars, apiVars, procVars>>

\* the server's answers
ApplicationIds == {"app1", "app2"}
UnknownHash == Sha256(<<0>>)
ServerHashes(applicationFiles) ==
    {applicationFiles[k].fileHash : k \in 1..Len(applicationFiles)} \cup {UnknownHash}

\* the create-application response arrives (or the request fails)
CreateApplicationDone(ok, applicationId, hashes) ==
    /\ run.pc = "createApplication"
    /\ IF ~ok
       THEN /\ run' = Throw(run, "Unable to create application")
            /\ net' = net
       ELSE LET resp == [applicationId |-> applicationId,
                         fileHashesRequiringUpload |-> hashes]
                nxt == NextRequest([run EXCEPT !.createApplicationResponse = resp],
                                   Append(net, Response("createApplication", resp)), 1)
            IN /\ run' = nxt.run
               /\ net' = nxt.net
    /\ UNCHANGED <<env, fsys, modules, apikey>>
    /\ UNCHANGED <<jobVars, cfgVars, apiVars, procVars>>

\* how an upload-file request ends: answered with 200, answered with a
\* redirect status, or failed (any other status, a transport error)
UploadOutcomes == {"ok", "redirect", "failed"}

\* what api.uploadFile resolves to: the parsed body, or for a redirect the
\* response object that sendRequest returns as it is (api.js lines 234-237)
UploadFileResult(outcome) ==
    IF outcome = "redirect" THEN <<"redirect">> ELSE <<>>

\* await this.api.uploadFile(uploadFilePayload) is over: run goes on with
\* the loop when the call resolved and throws when it rejected
UploadFileDone(outcome) ==
    /\ run.pc = "uploadFile"
    /\ IF outcome = "failed"
       THEN /\ run' = Throw(run, "upload failed")
            /\ net' = net
       ELSE LET nxt == NextRequest(run,
                           Append(net, Response("uploadFile",
                                                UploadFileResult(outcome))),
                           run.uploadIdx + 1)
            IN /\ run' = nxt.run
               /\ net' = nxt.net
    /\ UNCHANGED <<env, fsys, modules, apikey>>
    /\ UNCHANGED <<jobVars, cfgVars, apiVars, procVars>>

\* Job.create(api, apiResponse)
JobCreate(apiResponse) ==
    [id |-> apiResponse.jobId, applicationId |-> apiResponse.applicationId,
     jobType |-> apiResponse.jobType]

\* the create-job response arrives (or the request fails): lines 317-322
CreateJobDone(ok, jobId) ==
    /\ run.pc = "createJob"
    /\ IF ~ok
       THEN /\ run' = Throw(run, "create job failed")
            /\ net' = net
       ELSE LET resp == [jobId |-> jobId,
                         applicationId |-> run.createApplicationResponse.applicationId,
                         jobType |-> "InstantJob"]
            IN /\ run' = [run EXCEPT !.pc = "returned", !.job = JobCreate(resp)]
               /\ net' = Append(net, Response("createJob", resp))
    /\ UNCHANGED <<env, fsys, modules, apikey>>
    /\ UNCHANGED <<jobVars, cfgVars, apiVars, procVars>>

Next ==
    \/ \E t \in Targets, a \in CallerArgs, c \in CallerConfigs \cup BuiltConfigs(env) :
         RunCall(t, a, c)
    \/ LibraryChecks
    \/ \E o \in NpmPackOutcomes : NpmPack(o)
    \/ \E x \in {0, 1}, d \in NpmListOutputs : NpmList(x, d)
    \/ \E re \in BOOLEAN : CollectFiles(re)
    \/ \E ok \in BOOLEAN, id \in ApplicationIds :
         \E hs \in SeqsUpTo(ServerHashes(run.applicationFiles), MaxMissing) :
            CreateApplicationDone(ok, id, hs)
    \/ \E o \in UploadOutcomes : UploadFileDone(o)
    \/ \E ok \in BOOLEAN : CreateJobDone(ok, "job1")

Spec == Init /\ [][Next]_vars

\* a client on which only getUploadFiles is called
UploadFilesNext ==
    \/ \E c \in CallerConfigs \cup BuiltConfigs(env) : GetUploadFilesCall(c)
    \/ LibraryChecks
    \/ \E o \in NpmPackOutcomes : NpmPack(o)
    \/ \E re \in BOOLEAN : CollectFiles(re)

UploadFilesSpec == Init /\ [][UploadFilesNext]_vars

\* ------------------------------------------------------------------------
\* Job handle (job.js, api.js): operations
\* ------------------------------------------------------------------------
TimeoutError == "Waiting for Job to finish timed out."
StatusError == "error getting status"
SocketHangUp == "socket hang up"
OtherTransportError == "connect ECONNREFUSED"
TransportErrors == {SocketHangUp, OtherTransportError}

\* a getStatus that takes no error for a socket hang up
IsNeverSocketHangUp(e) == FALSE

\* e.toString().includes("socket hang up")
IsSocketHangUp(e) == e = SocketHangUp

\* an Api.jobStatus that throws the first failure
ApiGivesUpAtOnce(j) == TRUE

\* Api.jobStatus, in its catch: if (i === (retries - 1)) throw err
ApiGivesUp(j) == j = ApiRetries - 1

\* a wait that measures its expiration from time 0, not from its start
TimedOutFromEpoch(expiration, startTime, t) ==
    expiration # 0 /\ t > expiration

\* a wait that ignores its expiration
NeverTimedOut(expiration, startTime, t) == FALSE

\* Job.wait: expiration && (new Date().getTime() > (startTime + expiration))
TimedOut(expiration, startTime, t) ==
    expiration # 0 /\ t > startTime + expiration

\* a getReturnValue that does not wait for the job
getReturnValueNoWait(final) == TRUE

\* a wait and an isCompleted that do not look at the cache
waitNotCached(final) == FALSE
isCompletedNotCached(final) == FALSE

\* the cache checks: if (this.finalStatusResult) in isCompleted and wait,
\* if (!this.finalStatusResult) in getReturnValue
isCompletedCached(final) == final # NullResult
waitCached(final) == final # NullResult
getReturnValueCached(final) == final # NullResult

\* the locals of getStatus and of Api.jobStatus are gone once getStatus
\* has returned
GetStatusReturned(k) ==
    [k EXCEPT !.retries = 0, !.i = 0, !.j = 0, !.lastFailure = NULL]

\* the call returns a value: its locals are gone
Returned(k, kind, value) ==
    [GetStatusReturned(k) EXCEPT !.pc = "done",
                                 !.result = [kind |-> kind, value |-> value],
                                 !.startTime = 0, !.wakeAt = 0]
Threw(k, e) == [k EXCEPT !.pc = "threw", !.err = e, !.wakeAt = 0]

\* Api.sendRequest for /job/status: one request is sent
SendStatus(k) == [k EXCEPT !.pc = "status", !.did = @ \cup {"status"}]

\* Api.jobStatus(jobGuid): its loop starts with i = 0 (j in the model)
EnterJobStatus(k) == SendStatus([k EXCEPT !.j = 0])

\* Job.getStatus(retries) from iteration i of its loop
GetStatusFrom(k, i) ==
    IF i < k.retries THEN EnterJobStatus([k EXCEPT !.i = i])
    ELSE Threw([k EXCEPT !.i = i], StatusError)

EnterGetStatus(k, retries) ==
    GetStatusFrom([k EXCEPT !.retries = retries, !.lastFailure = NULL], 0)

\* GET /job/returnvalue and GET /job/logs
SendReturnValue(k) ==
    [GetStatusReturned(k) EXCEPT !.pc = "returnValue",
                                 !.did = @ \cup {"returnValue"},
                                 !.startTime = 0, !.wakeAt = 0]
SendLogs(k) == [k EXCEPT !.pc = "logs", !.did = @ \cup {"logs"}]

\* await timeout(700), started at time t
Sleep(k, t) ==
    [GetStatusReturned(k) EXCEPT !.pc = "sleep", !.did = @ \cup {"sleep"},
                                 !.wakeAt = Min(t + PollDelay, MaxTime)]

\* one iteration of the loop of Job.wait, at time t, up to its first await
WaitLoop(k, t) ==
    IF TimedOut(k.expiration, k.startTime, t)
    THEN Threw([k EXCEPT !.timedOutAt = t], TimeoutError)
    ELSE EnterGetStatus([k EXCEPT !.wakeAt = 0], DefaultRetries)

\* calls are numbered in the order they are made
Called(c) ==
    /\ calls[c].pc = "idle"
    /\ \A b \in Calls : b < c => calls[b].pc # "idle"

Begin(op) == [CallIdle EXCEPT !.op = op, !.cachedAtCall = finalStatusResult]

\* the deadline of a call with an expiration lies before the clock saturates
WithinHorizon(expiration) == expiration # 0 => now + expiration < MaxTime

\* job.getStatus(retries)
GetStatus(c, retries) ==
    /\ Called(c)
    /\ calls' = [calls EXCEPT ![c] = EnterGetStatus(Begin("getStatus"), retries)]
    /\ UNCHANGED <<finalStatusResult, finalWrites, now, failures, reported>>
    /\ UNCHANGED <<runVars, cfgVars, apiVars, procVars>>

\* job.isCompleted()
IsCompleted(c) ==
    /\ Called(c)
    /\ calls' = [calls EXCEPT ![c] =
                    IF isCompletedCached(finalStatusResult)
                    THEN Returned(Begin("isCompleted"), "boolean", "true")
                    ELSE EnterGetStatus(Begin("isCompleted"), DefaultRetries)]
    /\ UNCHANGED <<finalStatusResult, finalWrites, now, failures, reported>>
    /\ UNCHANGED <<runVars, cfgVars, apiVars, procVars>>

\* Job.wait(expiration) from its first line to its first await; startTime is
\* read only when expiration is truthy (line 158) and is kept for those calls
WaitFrom(k, expiration) ==
    LET w == [k EXCEPT !.startTime = IF expiration # 0 THEN now ELSE 0,
                       !.expiration = expiration] IN
    IF waitCached(finalStatusResult)
    THEN Returned(w, "status", finalStatusResult.jobStatus)
    ELSE WaitLoop(w, now)

\* job.wait(expiration)
Wait(c, expiration) ==
    /\ Called(c)
    /\ WithinHorizon(expiration)
    /\ calls' = [calls EXCEPT ![c] = WaitFrom(Begin("wait"), expiration)]
    /\ UNCHANGED <<finalStatusResult, finalWrites, now, failures, reported>>
    /\ UNCHANGED <<runVars, cfgVars, apiVars, procVars>>

\* job.getReturnValue(expiration)
GetReturnValue(c, expiration) ==
    /\ Called(c)
    /\ WithinHorizon(expiration)
    /\ calls' = [calls EXCEPT ![c] =
                    IF ~getReturnValueCached(finalStatusResult)
                    THEN WaitFrom(Begin("getReturnValue"), expiration)
                    ELSE SendReturnValue(
                            [Begin("getReturnValue") EXCEPT !.expiration = expiration])]
    /\ UNCHANGED <<finalStatusResult, finalWrites, now, failures, reported>>
    /\ UNCHANGED <<runVars, cfgVars, apiVars, procVars>>

\* job.getLogs()
GetLogs(c) ==
    /\ Called(c)
    /\ calls' = [calls EXCEPT ![c] = SendLogs(Begin("getLogs"))]
    /\ UNCHANGED <<finalStatusResult, finalWrites, now, failures, reported>>
    /\ UNCHANGED <<runVars, cfgVars, apiVars, procVars>>

\* a status request of call c is answered with a status result: Api.jobStatus
\* and getStatus return it, and the caller of getStatus goes on (lines
\* 127-139 of isCompleted, 165-177 of wait, 190-194 of getReturnValue)
StatusOk(c, jobStatus) ==
    LET k == calls[c]
        statusResult == StatusResult(jobStatus)
        terminal == IsFinalState(statusResult) \/ IsErrorState(statusResult)
    IN
    /\ k.pc = "status"
    /\ calls' = [calls EXCEPT ![c] =
         CASE k.op = "getStatus" -> Returned(k, "status", jobStatus)
           [] k.op = "isCompleted" ->
                Returned(k, "boolean", IF terminal THEN "true" ELSE "false")
           [] k.op = "wait" ->
                IF terminal THEN Returned(k, "status", jobStatus)
                ELSE Sleep(k, now)
           [] OTHER ->
                IF terminal THEN SendReturnValue(k) ELSE Sleep(k, now)]
    /\ IF terminal /\ k.op # "getStatus"
       THEN /\ finalStatusResult' = statusResult
            /\ finalWrites' = Append(finalWrites, statusResult)
       ELSE UNCHANGED <<finalStatusResult, finalWrites>>
    /\ UNCHANGED <<now, failures, reported>>
    /\ UNCHANGED <<runVars, cfgVars, apiVars, procVars>>

\* a status request of call c fails with transport error e: Api.jobStatus
\* sends it again or throws e, and then getStatus retries or throws
AfterStatusFailure(call, e) ==
    LET k == [call EXCEPT !.lastFailure = e] IN
    IF ~ApiGivesUp(k.j) THEN SendStatus([k EXCEPT !.j = @ + 1])
    ELSE IF IsSocketHangUp(e) THEN GetStatusFrom(k, k.i + 1)
    ELSE Threw(k, e)

\* a status request of call c fails with transport error e
StatusFailed(c, e) ==
    /\ calls[c].pc = "status"
    /\ failures < MaxFailures
    /\ failures' = failures + 1
    /\ calls' = [calls EXCEPT ![c] = AfterStatusFailure(calls[c], e)]
    /\ UNCHANGED <<finalStatusResult, finalWrites, now, reported>>
    /\ UNCHANGED <<runVars, cfgVars, apiVars, procVars>>

\* timeout(700) of call c is over: the loop of wait goes round
TimerFired(c) ==
    /\ calls[c].pc = "sleep"
    /\ now >= calls[c].wakeAt
    /\ calls' = [calls EXCEPT ![c] = WaitLoop(calls[c], now)]
    /\ UNCHANGED <<finalStatusResult, finalWrites, now, failures, reported>>
    /\ UNCHANGED <<runVars, cfgVars, apiVars, procVars>>

\* what the return-value request can bring: JSON text, other text, an error
ReturnValueOutcomes == {"json", "text", "error"}

\* lines 193-199 of job.js
ReturnValueDone(c, outcome) ==
    /\ calls[c].pc = "returnValue"
    /\ calls' = [calls EXCEPT ![c] =
                    IF outcome = "json" THEN Returned(calls[c], "value", "42")
                    ELSE Threw(calls[c], "Failed to parse return value.")]
    /\ UNCHANGED <<finalStatusResult, finalWrites, now, failures, reported>>
    /\ UNCHANGED <<runVars, cfgVars, apiVars, procVars>>

\* lines 101-113 of job.js
LogsDone(c, ok) ==
    /\ calls[c].pc = "logs"
    /\ calls' = [calls EXCEPT ![c] =
                    IF ok THEN Returned(calls[c], "text", "logs")
                    ELSE Threw(calls[c], OtherTransportError)]
    /\ UNCHANGED <<finalStatusResult, finalWrites, now, failures, reported>>
    /\ UNCHANGED <<runVars, cfgVars, apiVars, procVars>>

\* the clock advances; at MaxTime it stands for every later time
ClockStep == PollDelay
Tick ==
    /\ now < MaxTime
    /\ now' = Min(now + ClockStep, MaxTime)
    /\ UNCHANGED <<finalStatusResult, finalWrites, calls, failures, reported>>
    /\ UNCHANGED <<runVars, cfgVars, apiVars, procVars>>

\* a Job handle in a process that runs nothing else
JobInit ==
    /\ env = EnvKey /\ fsys = FsPlain /\ modules = GraphTree
    /\ apikey = env.apiKey
    /\ run = RunIdle
    /\ net = <<>>
    /\ finalStatusResult = NullResult
    /\ finalWrites = <<>>
    /\ calls = [c \in Calls |-> CallIdle]
    /\ now = 0
    /\ failures = 0
    /\ reported \in NonTerminalStatuses
    /\ NoConfigs
    /\ ApiConstructed
    /\ procs = <<>>

JobNext ==
    \/ \E c \in Calls, r \in RetriesChoices : GetStatus(c, r)
    \/ \E c \in Calls : IsCompleted(c)
    \/ \E c \in Calls, x \in Expirations : Wait(c, x)
    \/ \E c \in Calls, x \in Expirations : GetReturnValue(c, x)
    \/ \E c \in Calls : GetLogs(c)
    \/ \E c \in Calls, st \in Statuses : StatusOk(c, st)
    \/ \E c \in Calls, e \in TransportErrors : StatusFailed(c, e)
    \/ \E c \in Calls : TimerFired(c)
    \/ \E c \in Calls, o \in ReturnValueOutcomes : ReturnValueDone(c, o)
    \/ \E c \in Calls, ok \in BOOLEAN : LogsDone(c, ok)
    \/ Tick

JobSpec == JobInit /\ [][JobNext]_vars

\* the same handle against a server that answers every status request, and
\* always with a non-terminal status
JobLiveNext ==
    \/ \E c \in Calls : IsCompleted(c)
    \/ \E c \in Calls, x \in Expirations : Wait(c, x)
    \/ \E c \in Calls, x \in Expirations : GetReturnValue(c, x)
    \/ \E c \in Calls, st \in NonTerminalStatuses : StatusOk(c, st)
    \/ \E c \in Calls : TimerFired(c)
    \/ Tick

\* time passes, a timer that is due fires, a request is answered
JobLiveFairness ==
    /\ WF_vars(Tick)
    /\ \A c \in Calls : WF_vars(TimerFired(c))
    /\ \A c \in Calls : WF_vars(\E st \in NonTerminalStatuses : StatusOk(c, st))

JobLiveSpec == JobInit /\ [][JobLiveNext]_vars /\ JobLiveFairness

\* the job comes to its end on the server: from now on every status request
\* is answered with the terminal status st
ServerFinishes(st) ==
    /\ reported \in NonTerminalStatuses
    /\ reported' = st
    /\ UNCHANGED <<finalStatusResult, finalWrites, calls, now, failures>>
    /\ UNCHANGED <<runVars, cfgVars, apiVars, procVars>>

\* the same handle against a server that answers every status request with
\* the status of the job, which ends at some time and then stays as it is
JobDoneNext ==
    \/ \E c \in Calls : IsCompleted(c)
    \/ \E c \in Calls, x \in Expirations : Wait(c, x)
    \/ \E c \in Calls : StatusOk(c, reported)
    \/ \E c \in Calls : TimerFired(c)
    \/ \E st \in TerminalStatuses : ServerFinishes(st)
    \/ Tick

\* time passes, a timer that is due fires, a request is answered, the job ends
JobDoneFairness ==
    /\ WF_vars(Tick)
    /\ \A c \in Calls : WF_vars(TimerFired(c))
    /\ \A c \in Calls : WF_vars(StatusOk(c, reported))
    /\ WF_vars(\E st \in TerminalStatuses : ServerFinishes(st))

JobDoneSpec == JobInit /\ [][JobDoneNext]_vars /\ JobDoneFairness

\* every status request of call c ends in a socket hang up
HangUp(c) ==
    /\ calls[c].pc = "status"
    /\ calls' = [calls EXCEPT ![c] = AfterStatusFailure(calls[c], SocketHangUp)]
    /\ UNCHANGED <<finalStatusResult, finalWrites, now, failures, reported>>
    /\ UNCHANGED <<runVars, cfgVars, apiVars, procVars>>

\* getStatus calls against a server whose every status request ends in a
\* socket hang up
JobHangUpNext ==
    \/ \E c \in Calls, r \in RetriesChoices : GetStatus(c, r)
    \/ \E c \in Calls : HangUp(c)

\* every request comes to its end
JobHangUpFairness == \A c \in Calls : WF_vars(HangUp(c))

JobHangUpSpec == JobInit /\ [][JobHangUpNext]_vars /\ JobHangUpFairness

\* ------------------------------------------------------------------------
\* JobConfig instances (jobConfig.js): construction and the with* methods
\* ------------------------------------------------------------------------
\* the properties of a JobConfig that hold an object (an array or host);
\* memory holds a primitive
ObjectProperties == {"extraFiles", "libraries", "capabilities", "host"}

\* a DefaultJobConfig that is one object shared by every call
SharedDefaultObjects(n) == [p \in ObjectProperties |-> <<0, p>>]

\* DefaultJobConfig(): the n-th call returns an object literal evaluated
\* anew, so its arrays and its host object are new objects
DefaultJobConfigObjects(n) == [p \in ObjectProperties |-> <<n, p>>]

\* the value of instance c: its properties, objects read from the heap
ConfigValue(c) ==
    [memory |-> c.memory,
     extraFiles |-> heap[c.objects.extraFiles],
     libraries |-> heap[c.objects.libraries],
     capabilities |-> heap[c.objects.capabilities],
     host |-> heap[c.objects.host]]

\* the heap after instance c was given the value v
HeapWith(h, c, v) ==
    [id \in DOMAIN h \cup {c.objects[p] : p \in ObjectProperties} |->
        IF \E p \in ObjectProperties : c.objects[p] = id
        THEN v[CHOOSE p \in ObjectProperties : c.objects[p] = id]
        ELSE h[id]]

\* new JobConfig(): Object.assign(this, DefaultJobConfig()), then the
\* constructor's steps with no config
NewJobConfig ==
    /\ Len(configs) < MaxConfigs
    /\ LET n == Len(configs) + 1
           objects == DefaultJobConfigObjects(n)
           \* what the object DefaultJobConfig() returned holds
           returned ==
               [k \in DOMAIN DefaultJobConfig |->
                   IF k \in ObjectProperties /\ objects[k] \in DOMAIN heap
                   THEN heap[objects[k]] ELSE DefaultJobConfig[k]]
           value == JobConfigFrom(returned, EmptyObject, env)
           c == [memory |-> value.memory, objects |-> objects,
                 \* history: its value when the constructor returned, and
                 \* the with* calls made before it
                 constructed |-> value, after |-> withCalls,
                 \* history: the instance given as config (0: none), its
                 \* value before the constructor ran and after it returned
                 from |-> 0, sourceBefore |-> EmptyObject,
                 sourceAfter |-> EmptyObject]
       IN /\ configs' = Append(configs, c)
          /\ heap' = HeapWith(heap, c, value)
    /\ UNCHANGED withCalls
    /\ UNCHANGED <<runVars, jobVars, apiVars, procVars>>

\* the objects of `this` after merge(this, config) when config has every
\* property: an array is not isObject, so Object.assign makes the property
\* refer to the array of the source itself; host is merged key by key into
\* the host object this already has
MergedObjects(fresh, source) ==
    [p \in ObjectProperties |-> IF p = "host" THEN fresh[p] ELSE source[p]]

\* the value of instance c on heap h
ConfigValueIn(h, c) ==
    [memory |-> c.memory,
     extraFiles |-> h[c.objects.extraFiles],
     libraries |-> h[c.objects.libraries],
     capabilities |-> h[c.objects.capabilities],
     host |-> h[c.objects.host]]

\* new JobConfig(config) where config is the instance i constructed before
\* (what run and getUploadFiles do with the jobConfig they are given)
NewJobConfigOf(i) ==
    /\ i \in 1..Len(configs)
    /\ Len(configs) < MaxConfigs
    /\ LET n == Len(configs) + 1
           source == configs[i]
           fresh == DefaultJobConfigObjects(n)
           objects == MergedObjects(fresh, source.objects)
           value == JobConfigFrom(DefaultJobConfig, ConfigValue(source), env)
           c == [memory |-> value.memory, objects |-> objects,
                 constructed |-> value, after |-> withCalls]
           \* this.libraries.push writes to the array this.libraries refers to
           h == HeapWith(heap, c, value)
       IN /\ configs' = Append(configs,
                 [memory |-> c.memory, objects |-> c.objects,
                  constructed |-> c.constructed, after |-> c.after,
                  from |-> i, sourceBefore |-> ConfigValue(source),
                  sourceAfter |-> ConfigValueIn(h, source)])
          /\ heap' = h
    /\ UNCHANGED withCalls
    /\ UNCHANGED <<runVars, jobVars, apiVars, procVars>>

\* a with* method has given instance i the value v
Mutated(i, v) ==
    /\ i \in 1..Len(configs)
    /\ withCalls < MaxWithCalls
    /\ withCalls' = withCalls + 1
    /\ configs' = [configs EXCEPT ![i].memory = v.memory]
    /\ heap' = HeapWith(heap, configs[i], v)
    /\ UNCHANGED <<runVars, jobVars, apiVars, procVars>>

WithMemory(i) == Mutated(i, withMemory(ConfigValue(configs[i]), "512"))
WithExtraFile(i) == Mutated(i, withExtraFile(ConfigValue(configs[i]), <<"data">>))
WithLibrary(i) == Mutated(i, withLibrary(ConfigValue(configs[i]), "libA"))
WithHostDriver(i) ==
    Mutated(i, withHostDriver(ConfigValue(configs[i]), "local", [region |-> "eu"]))
WithHostAffinity(i) == Mutated(i, withHostAffinity(ConfigValue(configs[i]), "gpu"))
WithCapability(i) == Mutated(i, withCapability(ConfigValue(configs[i]), "chrome"))

Instances == 1..MaxConfigs

\* a program that constructs JobConfig instances and configures them
ConfigInit ==
    /\ env \in Envs /\ fsys = FsPlain /\ modules = GraphTree
    /\ apikey = env.apiKey
    /\ run = RunIdle
    /\ net = <<>>
    /\ finalStatusResult = NullResult
    /\ finalWrites = <<>>
    /\ calls = [c \in Calls |-> CallIdle]
    /\ now = 0
    /\ failures = 0
    /\ reported \in NonTerminalStatuses
    /\ NoConfigs
    /\ ApiConstructed
    /\ procs = <<>>

ConfigNext ==
    \/ NewJobConfig
    \/ \E i \in Instances : WithMemory(i)
    \/ \E i \in Instances : WithExtraFile(i)
    \/ \E i \in Instances : WithLibrary(i)
    \/ \E i \in Instances : WithHostDriver(i)
    \/ \E i \in Instances : WithHostAffinity(i)
    \/ \E i \in Instances : WithCapability(i)

ConfigSpec == ConfigInit /\ [][ConfigNext]_vars

\* a program that also passes instances on as the config of new ones
ConfigCopyNext ==
    \/ ConfigNext
    \/ \E i \in Instances : NewJobConfigOf(i)

ConfigCopySpec == ConfigInit /\ [][ConfigCopyNext]_vars

\* ------------------------------------------------------------------------
\* Api transport (api.js) and the client's setApiKey / setEndpoint
\* ------------------------------------------------------------------------
\* the operations of Api the model starts: through the client (createJob),
\* a Job handle (jobStatus, jobLogs) and a DataStore handle (dataStore*).
\* Job and DataStore keep the client's Api object itself (this.api = api).
ApiOps == {"createJob", "jobStatus", "jobLogs", "dataStoreUpload",
           "dataStoreDownload"}

\* an Api none of whose operations looks at res.redirect
FollowsNoRedirect(name) == FALSE

\* the operations that look at res.redirect and send the request again
FollowsRedirect(name) == name \in {"dataStoreUpload", "dataStoreDownload"}

\* the responseType given to sendRequest is "json" (the default)
JsonResponse(name) == name \in {"createJob", "jobStatus"}

\* the requests an operation sends through sendRequest before it gives up:
\* the loop of Api.jobStatus, one request for every other operation
Attempts(name) == IF name = "jobStatus" THEN ApiRetries ELSE 1

\* the status codes servers answer with, and a Location header
StatusCodes == {200, 201, 202, 204, 301, 302, 303, 307, 308, 404, 500}
Location == <<"https://s3.amazonaws.com", "/bucket/key">>

\* baseRequest, res.on("end"): a redirect status resolves with redirect =
\* true, 200 and 201 resolve, every other status rejects
RedirectCodes == {301, 302, 303, 307, 308}

\* the calls res.on("end") makes on the promise of baseRequest, in order
\* (lines 313-324: no branch returns, so control falls through to the end)
SettleCalls(statusCode) ==
    (IF statusCode \in RedirectCodes THEN <<"redirect">> ELSE <<>>)
    \o (IF statusCode \notin {200, 201} THEN <<"reject">> ELSE <<>>)
    \o <<"resolve">>

\* a promise that takes every call
SettledByLastCall(promise, call) ==
    [state |-> call, settles |-> promise.settles + 1]

\* resolve(value) or reject(reason) on a promise: only a pending promise
\* changes state
Settled(promise, call) ==
    IF promise.state = "pending"
    THEN [state |-> call, settles |-> promise.settles + 1]
    ELSE promise

Pending == [state |-> "pending", settles |-> 0]

\* the promise after the calls cs
RECURSIVE SettledByAll(_, _)
SettledByAll(promise, cs) ==
    IF cs = <<>> THEN promise
    ELSE SettledByAll(Settled(promise, Head(cs)), Tail(cs))

\* requestPromise once the response has ended
RequestPromise(statusCode) == SettledByAll(Pending, SettleCalls(statusCode))

BaseRequestOutcome(statusCode) == RequestPromise(statusCode).state

\* an upload that sends its body at once
ExpectsNoContinue(name) == FALSE

\* the requests that carry Expect: 100-Continue: sendRequest is called with
\* expectContinue = true by dataStoreUpload only (line 118), and the headers
\* of its redirect request hold it too (line 128)
ExpectsContinue(name) == name = "dataStoreUpload"

\* the body (if any) is transmitted and the request is ended; the server
\* signals continue
Ended == [dir |-> "end"]
Continued == [dir |-> "continue"]

\* baseRequest, lines 328-337: without the header request.end(body) is called
\* at once, with it when the "continue" event comes
Sent(request, expectContinue) ==
    IF expectContinue THEN <<request>> ELSE <<request, Ended>>

\* redirect headers that take the Authorization of the first request along
RedirectAuthorizationKept(a) == a.apiKey

\* redirectHeaders of dataStoreUpload (lines 124-129) hold no Authorization,
\* dataStoreDownload gives baseRequest no headers (line 175)
RedirectAuthorization(a) == NULL

\* a client whose setApiKey leaves the transport alone
SetApiKeyNowhere(a, key) == a

\* Api.setApiKey and Api.setEndpoint
SetApiKeyOn(a, key) == [a EXCEPT !.apiKey = key]
SetEndpointOn(a, e) == [a EXCEPT !.apiEndpoint = ApiEndpoint(e)]

\* an operation that has sent its first request, the request `sent`
OpStarted(name, urlStr, sent) ==
    [name |-> name, pc |-> "first", wire |-> sent,
     urlStr |-> urlStr,    \* the endpoint part of let urlStr
     j |-> 0,              \* the i of the loop of Api.jobStatus
     result |-> "none",    \* "body" or, for a redirect, "response"
     err |-> NULL]

\* sendRequest(urlStr, ...): the Authorization header is read from
\* this.apiKey when the request is built.  keyThen and endpointThen record
\* what the Api object held at that moment.
SentBySendRequest(urlStr) ==
    [dir |-> "request", by |-> "sendRequest", to |-> urlStr,
     authorization |-> api.apiKey,
     keyThen |-> api.apiKey, endpointThen |-> api.apiEndpoint]

\* baseRequest(true, method, redirectUrl, ...) of dataStoreUpload and
\* dataStoreDownload: the headers given hold no Authorization
SentByBaseRequest(redirectUrl) ==
    [dir |-> "request", by |-> "baseRequest", to |-> redirectUrl,
     authorization |-> RedirectAuthorization(api),
     keyThen |-> api.apiKey, endpointThen |-> api.apiEndpoint]

\* a response has ended: its status, and how often requestPromise changed
\* its state
Received(statusCode) ==
    [dir |-> "response", statusCode |-> statusCode,
     settles |-> RequestPromise(statusCode).settles]

\* client.setApiKey(apikey)
SetApiKey(key) ==
    /\ sets < MaxSets
    /\ sets' = sets + 1
    /\ apikey' = key
    /\ api' = SetApiKeyOn(api, key)
    /\ UNCHANGED <<env, fsys, modules, run, net>>
    /\ UNCHANGED <<endpoint, ops>>
    /\ UNCHANGED <<jobVars, cfgVars, procVars>>

\* client.setEndpoint(endpoint)
SetEndpoint(e) ==
    /\ sets < MaxSets
    /\ sets' = sets + 1
    /\ endpoint' = e
    /\ api' = SetEndpointOn(api, e)
    /\ UNCHANGED ops
    /\ UNCHANGED <<runVars, jobVars, cfgVars, procVars>>

\* an operation of Api is called: urlStr is built from this.apiEndpoint and
\* the first request is sent
ApiCall(name) ==
    /\ Len(ops) < MaxOps
    /\ ops' = Append(ops, OpStarted(name, api.apiEndpoint,
                                    Sent(SentBySendRequest(api.apiEndpoint),
                                         ExpectsContinue(name))))
    /\ UNCHANGED <<endpoint, api, sets>>
    /\ UNCHANGED <<runVars, jobVars, cfgVars, procVars>>

\* what an operation does with the answer to a request sent by sendRequest
AfterSendRequest(o, statusCode, parses) ==
    LET outcome == BaseRequestOutcome(statusCode)
        failed == \/ outcome = "reject"
                  \/ outcome = "resolve" /\ JsonResponse(o.name) /\ ~parses
    IN IF failed
       THEN IF o.j < Attempts(o.name) - 1
            THEN [o EXCEPT !.j = @ + 1,
                           !.wire = @ \o Sent(SentBySendRequest(o.urlStr),
                                              ExpectsContinue(o.name))]
            ELSE [o EXCEPT !.pc = "threw",
                           !.err = IF outcome = "reject" THEN "status"
                                   ELSE "responseBody"]
       ELSE IF outcome = "redirect"
       THEN IF FollowsRedirect(o.name)
            THEN [o EXCEPT !.pc = "redirected",
                           !.wire = @ \o Sent(SentByBaseRequest(Location),
                                              ExpectsContinue(o.name))]
            ELSE [o EXCEPT !.pc = "returned", !.result = "response"]
       ELSE [o EXCEPT !.pc = "returned", !.result = "body"]

\* lines 131-137 and 175-180: the answer to the request sent to the
\* location of the redirect
AfterRedirect(o, statusCode) ==
    LET outcome == BaseRequestOutcome(statusCode) IN
    IF outcome = "redirect"
    THEN [o EXCEPT !.pc = "threw", !.err = "unexpected redirect"]
    ELSE IF outcome = "reject" THEN [o EXCEPT !.pc = "threw", !.err = "status"]
    ELSE [o EXCEPT !.pc = "returned", !.result = "body"]

\* the server (or the storage the redirect named) answers the request of
\* operation i; parses: the body is JSON text
Answered(i, statusCode, parses) ==
    /\ i \in 1..Len(ops)
    /\ ops[i].pc \in {"first", "redirected"}
    /\ LET o == [ops[i] EXCEPT !.wire = Append(@, Received(statusCode))] IN
       ops' = [ops EXCEPT ![i] = IF o.pc = "first"
                                 THEN AfterSendRequest(o, statusCode, parses)
                                 ELSE AfterRedirect(o, statusCode)]
    /\ UNCHANGED <<endpoint, api, sets>>
    /\ UNCHANGED <<runVars, jobVars, cfgVars, procVars>>

\* the server signals continue to the request of operation i that waits for
\* it: the listener of line 333 ends the request with its body
Continue(i) ==
    /\ i \in 1..Len(ops)
    /\ ops[i].pc \in {"first", "redirected"}
    /\ ops[i].wire[Len(ops[i].wire)].dir = "request"
    /\ ops' = [ops EXCEPT ![i].wire = @ \o <<Continued, Ended>>]
    /\ UNCHANGED <<endpoint, api, sets>>
    /\ UNCHANGED <<runVars, jobVars, cfgVars, procVars>>

ApiNext ==
    \/ \E k \in ApiKeys : SetApiKey(k)
    \/ \E e \in Endpoints : SetEndpoint(e)
    \/ \E n \in ApiOps : ApiCall(n)
    \/ \E i \in 1..MaxOps, s \in StatusCodes, p \in BOOLEAN : Answered(i, s, p)
    \/ \E i \in 1..MaxOps : Continue(i)

\* a client with an API key, its Job and DataStore handles
ApiSpec == JobInit /\ [][ApiNext]_vars

\* ------------------------------------------------------------------------
\* runInProcess and TrackablePromise (process.js)
\* ------------------------------------------------------------------------
\* how a child ends: exit code 0 or 1, or killed by a signal (code null)
ExitCodes == {"0", "1", NULL}

\* a runInProcess that listens to 'close' only
ExitCallsNone(code) == <<>>

\* the 'exit' listener, code == 0 && res(code) || rej(...): res returns
\* undefined, so rej is called after it; null == 0 is false
ExitCalls(code) ==
    IF code = "0" THEN <<"resolve", "reject">> ELSE <<"reject">>

\* the 'close' listener res(code) and the 'error' listener rej(err)
CloseCalls == <<"resolve">>
ErrorCalls == <<"reject">>

\* isPending, isFulfilled, isRejected as TrackablePromise sets them first
InitialFlags == [isPending |-> TRUE, isFulfilled |-> FALSE, isRejected |-> FALSE]

\* the callbacks given to promise.then: each sets its flag, then isPending
FlagsAfter(state) ==
    [isPending |-> FALSE,
     isFulfilled |-> state = "resolve",
     isRejected |-> state = "reject"]

\* what runInProcess returns, and the child it spawned
Spawned ==
    [promise |-> Pending, flags |-> InitialFlags,
     \* the events the child has emitted, in order, and its exit code
     events |-> <<>>, code |-> NULL]

\* runInProcess(exec, args, cwd, env)
RunInProcess ==
    /\ Len(procs) < MaxProcs
    /\ procs' = Append(procs, Spawned)
    /\ UNCHANGED <<runVars, jobVars, cfgVars, apiVars>>

\* child i emits `event`, and its listener makes the calls cs on the promise
Emitted(i, event, cs) ==
    procs' = [procs EXCEPT ![i].events = Append(@, event),
                           ![i].promise = SettledByAll(@, cs)]

\* the child ends with exit code `code`: 'exit' is emitted (it may also be
\* emitted after an 'error')
ChildExit(i, code) ==
    /\ i \in 1..Len(procs)
    /\ procs[i].events \in {<<>>, <<"error">>}
    /\ procs' = [procs EXCEPT ![i].events = Append(@, "exit"),
                              ![i].code = code,
                              ![i].promise = SettledByAll(@, ExitCalls(code))]
    /\ UNCHANGED <<runVars, jobVars, cfgVars, apiVars>>

\* the child could not be spawned: 'error' is emitted
ChildError(i) ==
    /\ i \in 1..Len(procs)
    /\ procs[i].events = <<>>
    /\ Emitted(i, "error", ErrorCalls)
    /\ UNCHANGED <<runVars, jobVars, cfgVars, apiVars>>

\* the stdio streams of the child are closed: 'close' is emitted, after
\* 'exit' or 'error'
ChildClose(i) ==
    /\ i \in 1..Len(procs)
    /\ procs[i].events # <<>>
    /\ procs[i].events[Len(procs[i].events)] # "close"
    /\ Emitted(i, "close", CloseCalls)
    /\ UNCHANGED <<runVars, jobVars, cfgVars, apiVars>>

\* the callback TrackablePromise gave to promise.then runs, some time
\* after the promise has settled
Observed(i) ==
    /\ i \in 1..Len(procs)
    /\ procs[i].promise.state # "pending"
    /\ procs[i].flags.isPending
    /\ procs' = [procs EXCEPT ![i].flags = FlagsAfter(procs[i].promise.state)]
    /\ UNCHANGED <<runVars, jobVars, cfgVars, apiVars>>

Procs == 1..MaxProcs

ProcessNext ==
    \/ RunInProcess
    \/ \E i \in Procs, code \in ExitCodes : ChildExit(i, code)
    \/ \E i \in Procs : ChildError(i)
    \/ \E i \in Procs : ChildClose(i)
    \/ \E i \in Procs : Observed(i)

\* a program that runs child processes
ProcessSpec == JobInit /\ [][ProcessNext]_vars

\* ------------------------------------------------------------------------
\* Properties of run
\* ------------------------------------------------------------------------
\* the requests of one operation, in the order they were sent
Requests(op) == SelectSeq(net, LAMBDA m : m.dir = "request" /\ m.op = op)
Responses(op) == SelectSeq(net, LAMBDA m : m.dir = "response" /\ m.op = op)
FileHashes(files) == {files[k].fileHash : k \in 1..Len(files)}
MissingHashes == run.createApplicationResponse.fileHashesRequiringUpload
UploadPhaseOver == Requests("createJob") # <<>>

\* C1: the upload-file requests sent are, in order, one per entry of the
\* response's fileHashesRequiringUpload, each carrying a collected file with
\* that hash (its metadata and its contents); once the upload loop is over
\* (the create-job request is sent) there is exactly one per entry; no hash
\* absent from the list is uploaded, so an empty list means no upload.
C1_UploadsAreTheMissingHashes ==
    LET ups == Requests("uploadFile") IN
    /\ Len(ups) <= Len(MissingHashes)
    /\ \A k \in 1..Len(ups) :
         /\ ups[k].payload.applicationContextFile.fileHash = MissingHashes[k]
         /\ \E j \in 1..Len(run.applicationFiles) :
              /\ run.applicationFiles[j].fileHash = MissingHashes[k]
              /\ ups[k].payload.applicationContextFile
                    = FileToJSON(run.applicationFiles[j])
              /\ ups[k].payload.fileContents = run.applicationFiles[j].fileContents
    /\ UploadPhaseOver => Len(ups) = Len(MissingHashes)

\* a run that returned after the server listed two different hashes while
\* it already had another collected file
C1_Witness ==
    /\ run.pc = "returned"
    /\ Len(MissingHashes) = 2
    /\ MissingHashes[1] # MissingHashes[2]
    /\ Len(Requests("uploadFile")) = 2
    /\ FileHashes(run.applicationFiles) \ Range(MissingHashes) # {}

\* C2: the create-application response precedes every upload-file request;
\* the create-job request is sent only when every upload-file request has
\* been acknowledged; upload and create-job payloads carry the response's
\* applicationId; a Job handle exists only after the create-job response.
C2_RequestOrder ==
    /\ \A i \in 1..Len(net) :
         net[i].dir = "request" /\ net[i].op \in {"uploadFile", "createJob"} =>
            /\ \E j \in 1..(i - 1) :
                 /\ net[j] = Response("createApplication", run.createApplicationResponse)
            /\ IF net[i].op = "uploadFile"
               THEN net[i].payload.applicationGuid
                       = run.createApplicationResponse.applicationId
               ELSE net[i].payload.applicationId
                       = run.createApplicationResponse.applicationId
            /\ run.createApplicationResponse.applicationId \in ApplicationIds
    /\ \A i \in 1..Len(net) :
         net[i].dir = "request" /\ net[i].op = "createJob" =>
            LET before == SubSeq(net, 1, i - 1)
                sent == SelectSeq(before, LAMBDA m : m.dir = "request" /\ m.op = "uploadFile")
                acked == SelectSeq(before, LAMBDA m : m.dir = "response" /\ m.op = "uploadFile")
            IN /\ Len(sent) = Len(acked)
               /\ Len(sent) = Len(MissingHashes)
    /\ \A i \in 2..Len(net) :
         net[i].dir = "request" /\ net[i].op = "uploadFile" => net[i - 1].dir = "response"
    /\ (run.pc = "returned" \/ run.job # NoJob) =>
         /\ net # <<>>
         /\ net[Len(net)].dir = "response" /\ net[Len(net)].op = "createJob"
         /\ run.job.id = net[Len(net)].payload.jobId

\* a run that returned a Job after one upload
C2_Witness ==
    /\ run.pc = "returned"
    /\ run.job.id = "job1"
    /\ Len(Requests("uploadFile")) = 1
    /\ Len(net) = 6

\* the modules reachable from the starting module through parent and
\* child links, as a least fixed point (independent of the search's queue)
RECURSIVE ReachableFrom(_, _)
ReachableFrom(g, S) ==
    LET more == S \cup {g[f].parent : f \in {x \in S : g[x].parent # NULL}}
                  \cup UNION {Range(g[f].children) : f \in S}
    IN IF more = S THEN S ELSE ReachableFrom(g, more)

ExportedByReachableModule(g, targetFunction) ==
    \E f \in ReachableFrom(g, {StartModule}) :
        \E n \in DOMAIN g[f].exports : g[f].exports[n] = targetFunction.id

BadLibrary(l) == Libraries[l].kind # "ok"

\* C3: a run call whose target is no function, whose client has no API key,
\* whose target function no reachable module exports, or one of whose
\* configured library paths is missing, no directory or without a usable
\* package.json, sends no request: it throws, and before that it is still
\* checking and packing libraries.
C3_FailFast ==
    run.pc # "idle" =>
      /\ ( \/ ~run.targetFunction.isFunction
           \/ apikey = NULL
           \/ ~ExportedByReachableModule(modules, run.targetFunction) )
           => run.pc = "threw" /\ net = <<>> /\ run.job = NoJob
      /\ (\E l \in Range(run.safeJobConfig.libraries) : BadLibrary(l))
           => run.pc \in {"libraries", "npmPack", "threw"} /\ net = <<>>
              /\ run.job = NoJob

\* a run that packed one library and then threw on a missing library path
C3_Witness ==
    /\ run.pc = "threw"
    /\ run.err = "Library directory was not found"
    /\ Len(run.libraryInfos) = 1
    /\ net = <<>>

\* C4: when npm pack, npm list or the read of a collected file (a source
\* file, an extra file or a library archive) has failed, the run call has
\* thrown, no request was sent and no Job handle exists.
C4_PackagingErrorsAbort ==
    run.faults # {} => run.pc = "threw" /\ net = <<>> /\ run.job = NoJob

\* a run that threw on a failed file read after packing a library
C4_Witness ==
    /\ run.pc = "threw"
    /\ "readFile" \in run.faults
    /\ Len(run.libraryInfos) = 1

\* ------------------------------------------------------------------------
\* Properties of the Job handle
\* ------------------------------------------------------------------------
IsTerminal(statusResult) == IsFinalState(statusResult) \/ IsErrorState(statusResult)

\* C5: finalStatusResult is null on a new handle, only ever holds a terminal
\* status result, and once set is never written again: it is the first
\* terminal status result any call assigned. (The statement of the claim;
\* two calls in flight together both assign it.)
C5_FirstTerminalStatusKept ==
    /\ Len(finalWrites) <= 1
    /\ finalStatusResult =
         IF finalWrites = <<>> THEN NullResult ELSE finalWrites[1]
    /\ finalStatusResult # NullResult => IsTerminal(finalStatusResult)

\* C6: a wait call made while a final status is cached has returned that
\* cached result, having sent no request and slept for no delay, whatever
\* its expiration.
C6_WaitReturnsCached ==
    \A c \in Calls :
        (calls[c].op = "wait" /\ calls[c].cachedAtCall # NullResult) =>
            /\ calls[c].pc = "done"
            /\ calls[c].result =
                 [kind |-> "status", value |-> calls[c].cachedAtCall.jobStatus]
            /\ calls[c].did = {}

\* a wait with an expiration, made after the clock has moved on, returned
\* what was cached
C6_Witness ==
    \E c \in Calls :
        /\ calls[c].op = "wait" /\ calls[c].expiration = 1
        /\ calls[c].cachedAtCall # NullResult
        /\ calls[c].pc = "done"
        /\ now > 0

IsWaitWithExpiration(c) == calls[c].op = "wait" /\ calls[c].expiration > 0
ThrewTimeout(c) == calls[c].pc = "threw" /\ calls[c].err = TimeoutError

\* C8: against a server that answers every status request with a
\* non-terminal status, a wait with a positive expiration never returns a
\* status result and eventually throws the timeout error.
C8_WaitTimesOut ==
    \A c \in Calls :
        /\ [](IsWaitWithExpiration(c) => calls[c].pc # "done")
        /\ IsWaitWithExpiration(c) ~> ThrewTimeout(c)

\* a wait(700) has polled, slept and then timed out
C8_Witness ==
    \E c \in Calls :
        /\ IsWaitWithExpiration(c) /\ calls[c].expiration = 700
        /\ ThrewTimeout(c)
        /\ calls[c].did = {"status", "sleep"}

\* C9: the expiration is a number of seconds: a wait or getReturnValue call
\* throws the timeout error only after more than expiration seconds. (The
\* statement of the claim; the code compares milliseconds.)
C9_ExpirationInSeconds ==
    \A c \in Calls :
        ThrewTimeout(c) =>
            calls[c].timedOutAt - calls[c].startTime > calls[c].expiration * 1000

StatusRequestsSent(k) ==
    CASE k.pc = "status" -> ApiRetries * k.i + k.j + 1
      [] k.pc = "threw" /\ k.err = StatusError -> ApiRetries * k.i
      [] k.pc = "threw" /\ k.err \in TransportErrors /\ k.lastFailure # NULL ->
            ApiRetries * k.i + k.j + 1
      [] OTHER -> 0

Searched == run.search # NoSearch

\* C12: when no module reachable from the starting module exports the
\* target function, the search ends by throwing the not-found error, also
\* when a module is a child of two modules or the graph has cycles. (The
\* statement of the claim; with a module queued twice the search throws a
\* TypeError.)
C12_NotFoundError ==
    (Searched /\ ~ExportedByReachableModule(modules, run.targetFunction)) =>
        /\ run.search.kind = "notFound"
        /\ run.pc = "threw" /\ run.err = NotFoundError

\* C13: when a reachable module M exports the target function under name n,
\* targetFunctionComponents returns M's absolute path, its path relative to
\* the working directory and the export name n. (The statement of the
\* claim; the name returned is the function's own name.)
C13_ReturnsExportName ==
    (Searched /\ ExportedByReachableModule(modules, run.targetFunction)) =>
        /\ run.components.kind = "found"
        /\ LET M == run.search.module IN
           /\ run.components.file = Cwd \o <<M>>
           /\ run.components.relFile = <<M>>
           /\ run.components.name \in DOMAIN modules[M].exports
           /\ modules[M].exports[run.components.name] = run.targetFunction.id

NoDuplicates(s) == \A a, b \in 1..Len(s) : s[a] = s[b] => a = b

\* C14: the search comes to an end on every module graph, cyclic ones
\* included: it tests the exports of each module at most once, so it makes
\* no more rounds than there are modules, and ends by returning a module or
\* by throwing.
C14_EachModuleTestedOnce ==
    Searched =>
        /\ run.search.kind \in {"found", "notFound", "typeError"}
        /\ NoDuplicates(run.search.tested)
        /\ Range(run.search.tested) \subseteq ReachableFrom(modules, {StartModule})
        /\ Len(run.search.tested) <= Cardinality(DOMAIN modules)

\* a search went round the cycle of main.js and util.js and ended after
\* testing each module once
C14_Witness ==
    /\ modules = GraphCycle
    /\ run.search.kind = "notFound"
    /\ Len(run.search.tested) = Cardinality(DOMAIN modules)

\* ------------------------------------------------------------------------
\* Properties of the payloads
\* ------------------------------------------------------------------------
\* JSON.parse of a text JsonStringify produced
JsonParse(text) == text[2]

\* the entrypoint the claim describes for run(f, args, config)
ExpectedEntrypoint ==
    [functionModuleFile |-> <<run.search.module>>,
     functionName |-> run.targetFunction.name,
     functionArguments |-> IF run.args.defined THEN run.args.value ELSE <<>>]

\* C15: the serialized entrypoint of the create-job payload decodes to
\* exactly {functionModuleFile: the project-relative path of f's module,
\* functionName: f's name, functionArguments: args}, with functionArguments
\* the empty list when the caller passes no arguments. (The statement of
\* the claim; without arguments the property is left out.)
C15_EntrypointDecodes ==
    \A k \in 1..Len(Requests("createJob")) :
        JsonParse(Requests("createJob")[k].payload.serializedJobEntrypoint)
            = ExpectedEntrypoint

\* C16: the memoryMb of the create-job payload is the memory configured on
\* the JobConfig, and null only when none was configured. (The statement
\* of the claim; run reads a memoryMb property the JobConfig does not have.)
C16_MemoryMbIsMemory ==
    \A k \in 1..Len(Requests("createJob")) :
        Requests("createJob")[k].payload.memoryMb = run.safeJobConfig.memory

\* the payloads that carry a host definition
HostDefinitionsSent ==
    {net[k].payload.hostDefinition :
        k \in {j \in 1..Len(net) :
                 /\ net[j].dir = "request"
                 /\ net[j].op \in {"createApplication", "createJob"}}}

\* C17: a label set with withHostAffinity(label) is the hostAffinity of the
\* host definition of the create-application and of the create-job payload.
\* (The statement of the claim; the label is stored as host.hostAffinity
\* and the payloads read host.affinity.)
C17_HostAffinitySent ==
    "hostAffinity" \in DOMAIN run.safeJobConfig.host =>
        \A h \in HostDefinitionsSent :
            h.hostAffinity = run.safeJobConfig.host.hostAffinity

\* the JobConfig holds the value of every field that config sets
RECURSIVE HoldsCallerValues(_, _)
HoldsCallerValues(config, jc) ==
    \A k \in DOMAIN config :
        /\ k \in DOMAIN jc
        /\ IF k \in ObjectKeys THEN HoldsCallerValues(config[k], jc[k])
           ELSE jc[k] = config[k]

Without(obj, key) == [k \in DOMAIN obj \ {key} |-> obj[k]]
CallerSet(key) == key \in DOMAIN run.jobConfig
CallerSetHost(key) == CallerSet("host") /\ key \in DOMAIN run.jobConfig.host

NoEnvironmentOverrides == env.defaultHostdriver = NULL /\ env.libraries = <<>>

\* C19: a JobConfig constructed without arguments and without environment
\* overrides has memory null, empty extraFiles, libraries and capabilities,
\* host driver "ec2", useSpotInstance true and affinity null, whatever with*
\* calls were made before on other instances; no two instances refer to a
\* common array or host object.
C19_FreshDefaults ==
    /\ \A i \in 1..Len(configs) :
         NoEnvironmentOverrides =>
            /\ configs[i].constructed = DefaultJobConfig
            /\ configs[i].constructed.memory = NULL
            /\ configs[i].constructed.extraFiles = <<>>
            /\ configs[i].constructed.libraries = <<>>
            /\ configs[i].constructed.capabilities = <<>>
            /\ configs[i].constructed.host.driver = "ec2"
            /\ configs[i].constructed.host.options.useSpotInstance = TRUE
            /\ configs[i].constructed.host.affinity = NULL
    /\ \A i, j \in 1..Len(configs) :
         i # j => \A p, q \in ObjectProperties :
                     configs[i].objects[p] # configs[j].objects[q]

\* a second instance was constructed after the first one was given memory,
\* an extra file and a host driver
C19_Witness ==
    /\ NoEnvironmentOverrides
    /\ Len(configs) = 2
    /\ configs[2].after = 3
    /\ ConfigValue(configs[1]).extraFiles # <<>>
    /\ ConfigValue(configs[1]).host.driver = "local"
    /\ configs[1].memory = "512"
    /\ ConfigValue(configs[2]) = DefaultJobConfig

\* ------------------------------------------------------------------------
\* Properties of the file collector
\* ------------------------------------------------------------------------
HasExcludedSegment(relPath) ==
    \E s \in 1..Len(relPath) : relPath[s] \in {"node_modules", ".."}

\* the files listed in the create-application payloads sent
FilesListed ==
    UNION {Range(Requests("createApplication")[k]
                    .payload.applicationExecutionContext.files) :
             k \in 1..Len(Requests("createApplication"))}

\* C20: no file the collector returned, and none listed in the
\* create-application payload, has a project-relative path with a
\* node_modules segment or a ".." segment.
C20_NoExcludedSegments ==
    /\ \A k \in 1..Len(run.applicationFiles) :
         ~HasExcludedSegment(run.applicationFiles[k].filePathRelativeToAppContext)
    /\ \A f \in FilesListed : ~HasExcludedSegment(f.filePathRelativeToAppContext)

\* files were collected and listed for a project with a node_modules
\* directory, a loaded module outside the project, an extra file and a
\* library archive
C20_Witness ==
    /\ \E p \in DOMAIN fsys.files : HasExcludedSegment(p)
    /\ \E p \in fsys.cache : HasExcludedSegment(p)
    /\ "extraFiles" \in DOMAIN run.jobConfig
    /\ FilesListed # {}
    /\ \E f \in FilesListed : f.filePathRelativeToAppContext = <<"data", "blob.bin">>

\* ------------------------------------------------------------------------
\* Properties of the library packager
\* ------------------------------------------------------------------------
\* the collected files that are application files (source files and extra
\* files) and those that are library archives: collect appends the archives
\* after the application files
ArchiveFiles == {run.libraryInfos[k].archiveContextFile : k \in 1..Len(run.libraryInfos)}
ApplicationFilesOnly ==
    {run.applicationFiles[k] :
        k \in 1..(Len(run.applicationFiles) - Len(run.libraryInfos))}

\* C21: the archive ContextFile of every packaged library has a relative
\* path below aegisblade_lib, and in the collected file set that path is
\* the relative path of no application file. (The statement of the claim;
\* nothing keeps application files out of aegisblade_lib.)
C21_ArchivePathsReserved ==
    /\ \A a \in ArchiveFiles :
         /\ Len(a.filePathRelativeToAppContext) = 2
         /\ a.filePathRelativeToAppContext[1] = LibraryDir
    /\ run.applicationFiles # <<>> =>
         \A a \in ArchiveFiles, f \in ApplicationFilesOnly :
            a.filePathRelativeToAppContext # f.filePathRelativeToAppContext

\* the checks of getLibraryInfos in the order the claim gives them, with the
\* error of each
CheckErrors ==
    << "Library directory was not found",
       "Specified library path is not a directory",
       "Library directory does not include a 'package.json' file",
       "Unable to parse library's package.json",
       "Library's package.json has no 'name' property." >>

\* the first of those checks that fails for what is on disk at a library
\* path, 0 when none does
FailedCheck(library) ==
    LET k == Libraries[library].kind IN
    CASE k = "missing" -> 1
      [] k = "file" -> 2
      [] k \in {"noPackageJson", "packageJsonIsDir"} -> 3
      [] k = "badJson" -> 4
      [] k = "noName" -> 5
      [] OTHER -> 0

\* C22: getLibraryInfos takes the libraries in order and throws at the
\* first failed check of the first bad library, with the error of that
\* check (the five errors differ; those of the missing path and of the
\* missing package.json name the library path); npm pack is started for a
\* library only when all its checks have passed.
C22_ChecksInOrder ==
    /\ \A a, b \in 1..Len(CheckErrors) : CheckErrors[a] = CheckErrors[b] => a = b
    /\ run.libIdx \in 1..Len(run.safeJobConfig.libraries) =>
         LET library == run.safeJobConfig.libraries[run.libIdx]
             n == FailedCheck(library)
         IN /\ \A k \in 1..(run.libIdx - 1) :
                  FailedCheck(run.safeJobConfig.libraries[k]) = 0
            /\ run.pc = "npmPack" => n = 0
            /\ n # 0 => run.pc \in {"libraries", "threw"}
            /\ (run.pc = "threw" /\ run.faults = {}) =>
                  /\ n # 0
                  /\ run.err = CheckErrors[n]
                  /\ n \in {1, 3} => run.errPath = library

\* a run that packed libA and then threw on the nameless package.json of
\* the second library
C22_Witness ==
    /\ run.pc = "threw"
    /\ run.libIdx = 2
    /\ Len(run.libraryInfos) = 1
    /\ run.err = CheckErrors[5]
    /\ Libraries[run.safeJobConfig.libraries[2]].kind = "noName"

\* ------------------------------------------------------------------------
\* Properties of the dependency list
\* ------------------------------------------------------------------------
PackagedNames == {run.libraryInfos[k].packageName : k \in 1..Len(run.libraryInfos)}

\* C23: no package of a create-application payload has the name of a
\* library packaged for the run, and every other dependency npm list
\* reported is listed with its name and version. (The statement of the
\* claim; a dependency named like a method of arrays is left out.)
C23_PackagesMinusLibraries ==
    \A r \in 1..Len(Requests("createApplication")) :
        LET packages == Requests("createApplication")[r]
                           .payload.applicationExecutionContext.packages
        IN /\ \A k \in 1..Len(packages) : packages[k].name \notin PackagedNames
           /\ \A n \in DOMAIN run.dependencies \ PackagedNames :
                 \E k \in 1..Len(packages) :
                    packages[k] = [name |-> n,
                                   version |-> run.dependencies[n].version]

\* ------------------------------------------------------------------------
\* Properties of the Api transport
\* ------------------------------------------------------------------------
RequestsOf(o) == SelectSeq(o.wire, LAMBDA m : m.dir = "request")
ResponsesOf(o) == SelectSeq(o.wire, LAMBDA m : m.dir = "response")
IsRedirect(m) == m.statusCode \in RedirectCodes

\* C24: a data-store upload or download sends at most two requests: a
\* second one exactly when the first response is a redirect, and then to
\* the location it gives; when the second response is a redirect too the
\* operation throws 'unexpected redirect'.
C24_AtMostOneRedirect ==
    \A i \in 1..Len(ops) :
        ops[i].name \in {"dataStoreUpload", "dataStoreDownload"} =>
            LET rq == RequestsOf(ops[i])
                rs == ResponsesOf(ops[i])
            IN /\ Len(rq) <= 2
               /\ Len(rq) = 2 <=> (Len(rs) >= 1 /\ IsRedirect(rs[1]))
               /\ Len(rq) = 2 => rq[2].to = Location
               /\ Len(rs) = 2 => ops[i].pc \in {"returned", "threw"}
               /\ (Len(rs) = 2 /\ IsRedirect(rs[2])) =>
                     ops[i].pc = "threw" /\ ops[i].err = "unexpected redirect"

\* an upload was redirected, and redirected again
C24_Witness ==
    \E i \in 1..Len(ops) :
        /\ ops[i].name = "dataStoreUpload"
        /\ Len(RequestsOf(ops[i])) = 2
        /\ Len(ResponsesOf(ops[i])) = 2
        /\ ops[i].err = "unexpected redirect"

\* C25: an operation whose last response has a status outside 200..299 has
\* thrown, unless it is an upload or download following a redirect (or
\* Api.jobStatus about to send its request again), and an operation that
\* returned got a 2xx response last. (The statement of the claim; a
\* redirect answered to any other operation is returned as its result.)
C25_NonSuccessFails ==
    \A i \in 1..Len(ops) :
        LET rs == ResponsesOf(ops[i]) IN
        rs # <<>> =>
            LET last == rs[Len(rs)] IN
            /\ last.statusCode \notin 200..299 =>
                  \/ ops[i].pc = "threw"
                  \/ ops[i].pc = "redirected" /\ IsRedirect(last)
                  \/ ops[i].pc = "first" /\ ops[i].name = "jobStatus"
            /\ ops[i].pc = "returned" => last.statusCode \in 200..299

\* C27 as stated: every request is sent with the key and to the endpoint
\* that the latest setApiKey and setEndpoint gave the client, and the
\* client's key is that of its transport.
C27_EveryRequestNewKeyAndEndpoint ==
    /\ apikey = api.apiKey
    /\ \A i \in 1..Len(ops) : \A k \in 1..Len(ops[i].wire) :
         LET m == ops[i].wire[k] IN
         m.dir = "request" =>
            m.authorization = m.keyThen /\ m.to = m.endpointThen

\* C27 amended: the client's key and endpoint are those of its transport;
\* every request sent by sendRequest carries the key current when it is
\* sent; the first request of an operation goes to the endpoint current
\* when the operation is called, and so do the retries of Api.jobStatus,
\* whatever setEndpoint did meanwhile; the request that follows a redirect
\* goes to the location given, without the key.
C27_OperationsUseCurrentKeyAndEndpoint ==
    /\ apikey = api.apiKey
    /\ api.apiEndpoint = ApiEndpoint(endpoint)
    /\ \A i \in 1..Len(ops) :
         /\ ops[i].wire[1].dir = "request"
         /\ ops[i].wire[1].by = "sendRequest"
         /\ ops[i].wire[1].to = ops[i].wire[1].endpointThen
         /\ \A k \in 1..Len(ops[i].wire) :
              LET m == ops[i].wire[k] IN
              m.dir = "request" =>
                 IF m.by = "sendRequest"
                 THEN /\ m.authorization = m.keyThen
                      /\ m.to = ops[i].wire[1].endpointThen
                 ELSE /\ FollowsRedirect(ops[i].name)
                      /\ m.authorization = NULL
                      /\ m.to = Location

\* after a setApiKey and a setEndpoint, a status request went out with the
\* new key to the new endpoint, and its retry too
C27_Witness ==
    /\ sets = 2
    /\ \E i \in 1..Len(ops) :
         /\ ops[i].name = "jobStatus"
         /\ Len(RequestsOf(ops[i])) = 2
         /\ \A k \in 1..2 :
              /\ RequestsOf(ops[i])[k].authorization = "key2"
              /\ RequestsOf(ops[i])[k].to = ApiEndpoint("http://localhost:8080")

\* ------------------------------------------------------------------------
\* Properties of getUploadFiles and of repeated collection
\* ------------------------------------------------------------------------
\* C26: while and after getUploadFiles runs, whatever the configuration and
\* whether it returns the file paths or throws, no request has been sent
\* to the API: nothing was uploaded.
C26_GetUploadFilesSendsNothing ==
    run.op = "getUploadFiles" =>
        /\ net = <<>>
        /\ run.pc \in {"libraries", "npmPack", "collect", "listed", "threw"}
        /\ run.job = NoJob /\ run.createApplicationResponse = NoResponse

\* getUploadFiles packed a library and returned the paths of the collected
\* files and of the archive
C26_Witness ==
    /\ run.op = "getUploadFiles"
    /\ run.pc = "listed"
    /\ Len(run.libraryInfos) = 1
    /\ Len(run.uploadFiles) > 1
    /\ run.uploadFiles[Len(run.uploadFiles)]
          = run.libraryInfos[1].archiveContextFile.filePath

\* what the claim compares of a ContextFile
Fingerprint(f) ==
    <<f.filePathRelativeToAppContext, f.fileHash, f.fileByteCount>>

\* the candidate paths of a collection with the extra files xs, as a set:
\* the extra files (directories expanded), the loaded modules and the .js
\* files below the working directory, less the excluded ones
CandidatePaths(xs) ==
    LET extra == UNION { IF StatSync(PathRelative(xs[k]), fsys) = "dir"
                         THEN listFiles(FALSE, PathRelative(xs[k]), fsys)
                         ELSE {PathRelative(xs[k])} : k \in 1..Len(xs) }
        loaded == {PathRelative(m) : m \in fsys.cache}
        walked == listFiles(TRUE, <<>>, fsys)
    IN {p \in extra \cup loaded \cup walked : ~ExcludedPattern(p)}

IsWaitWithoutExpiration(c) == calls[c].op = "wait" /\ calls[c].expiration = 0

WaitReturned(c, st) ==
    /\ calls[c].pc = "done"
    /\ calls[c].result = [kind |-> "status", value |-> st]
    /\ finalStatusResult = StatusResult(st)

C29_WaitReturnsTerminalStatus ==
    /\ [](\A c \in Calls :
            IsWaitWithoutExpiration(c) /\ reported \in NonTerminalStatuses
                => calls[c].pc \in {"status", "sleep"})
    /\ \A c \in Calls, st \in TerminalStatuses :
            (IsWaitWithoutExpiration(c) /\ reported = st) ~> WaitReturned(c, st)

\* a wait() without expiration that found nothing cached, slept, and returned
\* the status in capital letters
C29_Witness ==
    \E c \in Calls :
        /\ IsWaitWithoutExpiration(c)
        /\ calls[c].cachedAtCall = NullResult
        /\ "sleep" \in calls[c].did
        /\ WaitReturned(c, "ERROR")

\* ------------------------------------------------------------------------
\* C30: wait(expiration) does not throw the timeout error before expiration
\* milliseconds have passed since the call began: startTime is the clock at
\* the beginning of the call, no poll of the call changes it, and the error
\* is thrown only at a time later than startTime + expiration.
\* ------------------------------------------------------------------------
WaitBegins(c) ==
    /\ calls[c].pc = "idle"
    /\ calls'[c].op = "wait"
    /\ calls'[c].expiration # 0

WaitInProgress(c) ==
    /\ IsWaitWithExpiration(c)
    /\ calls[c].pc \in {"status", "sleep"}

C30_NoTimeoutBeforeExpiration ==
    /\ [][\A c \in Calls :
            /\ WaitBegins(c) /\ calls'[c].pc # "done"
                    => calls'[c].startTime = now
            /\ WaitInProgress(c) /\ calls'[c].pc # "done"
                    => calls'[c].startTime = calls[c].startTime]_vars
    /\ [](\A c \in Calls :
            IsWaitWithExpiration(c) /\ ThrewTimeout(c)
                => calls[c].timedOutAt > calls[c].startTime + calls[c].expiration)

\* a wait(700) that began after time 0, polled, slept and then timed out
C30_Witness ==
    \E c \in Calls :
        /\ IsWaitWithExpiration(c) /\ ThrewTimeout(c)
        /\ calls[c].expiration = PollDelay
        /\ calls[c].startTime > 0
        /\ "sleep" \in calls[c].did

\* ------------------------------------------------------------------------
\* C31: a getReturnValue call has sent the return-value request only when a
\* terminal status result has been assigned to finalStatusResult; a call that
\* threw the error of its wait (the timeout, or a failure of the status
\* requests) has sent no return-value request.
\* ------------------------------------------------------------------------
RequestedReturnValue(c) == "returnValue" \in calls[c].did

TerminalObserved ==
    /\ finalStatusResult # NullResult
    /\ IsTerminal(finalStatusResult)

ThrewFromWait(c) ==
    /\ calls[c].pc = "threw"
    /\ calls[c].err \in {TimeoutError, StatusError} \cup TransportErrors

C31_ReturnValueAfterTerminal ==
    \A c \in Calls :
        calls[c].op = "getReturnValue" =>
            /\ RequestedReturnValue(c) => TerminalObserved
            /\ ThrewFromWait(c) => ~RequestedReturnValue(c)

\* one getReturnValue timed out after a poll, a later one polled, saw the
\* terminal status and then fetched the value
C31_Witness ==
    \E b, c \in Calls :
        /\ calls[b].op = "getReturnValue" /\ ThrewTimeout(b)
        /\ "sleep" \in calls[b].did /\ ~RequestedReturnValue(b)
        /\ calls[c].op = "getReturnValue" /\ calls[c].pc = "done"
        /\ calls[c].cachedAtCall = NullResult
        /\ RequestedReturnValue(c)

\* ------------------------------------------------------------------------
\* C32: whenever run has sent the create-job request, every hash the
\* create-application response listed is the hash of a collected file and
\* has been uploaded successfully: there is one upload-file answer per listed
\* hash and each of them is a success answer.
\* ------------------------------------------------------------------------
UploadSucceeded(m) == m.payload = UploadFileResult("ok")

C32_CreateJobAfterSuccessfulUploads ==
    UploadPhaseOver =>
        /\ Range(MissingHashes) \subseteq FileHashes(run.applicationFiles)
        /\ Len(Responses("uploadFile")) = Len(MissingHashes)
        /\ \A k \in 1..Len(Responses("uploadFile")) :
              UploadSucceeded(Responses("uploadFile")[k])

\* the part that holds: a listed hash of no collected file, or a rejected
\* upload, ends run before the create-job request
FailuresStopRun ==
    /\ ~(Range(MissingHashes) \subseteq FileHashes(run.applicationFiles))
            => ~UploadPhaseOver
    /\ run.pc = "threw" /\ run.err = "upload failed" => ~UploadPhaseOver

\* ------------------------------------------------------------------------
\* C33: a request of a data-store upload is ended with its body only when
\* the server has signalled continue for it; every request of another
\* operation is ended with its body as soon as it is sent.
\* ------------------------------------------------------------------------
C33_BodyAfterContinue ==
    \A i \in 1..Len(ops) : \A k \in 1..Len(ops[i].wire) :
        LET w == ops[i].wire IN
        /\ w[k].dir = "end" =>
              /\ k > 1
              /\ w[k - 1].dir = IF ops[i].name = "dataStoreUpload"
                                THEN "continue" ELSE "request"
        /\ w[k].dir = "continue" => k > 1 /\ w[k - 1].dir = "request"
        /\ (w[k].dir = "request" /\ ops[i].name # "dataStoreUpload") =>
              k < Len(w) /\ w[k + 1].dir = "end"

\* an upload whose two requests, the second to the redirect location, each
\* waited for continue, and one whose redirect came without a continue
C33_Witness ==
    \E i \in 1..Len(ops) :
        /\ ops[i].name = "dataStoreUpload"
        /\ ops[i].pc = "returned"
        /\ Len(RequestsOf(ops[i])) = 2
        /\ Len(SelectSeq(ops[i].wire, LAMBDA m : m.dir = "continue")) = 2
        /\ Len(ops[i].wire) = 8

\* ------------------------------------------------------------------------
\* C34: a request carries the Authorization header only when sendRequest
\* sent it to a URL of an API endpoint configured on the client; the request
\* sent to the location of a redirect carries none.
\* ------------------------------------------------------------------------
ApiEndpoints == {ApiEndpoint(e) : e \in Endpoints}

C34_KeyOnlyToApiEndpoint ==
    \A i \in 1..Len(ops) : \A k \in 1..Len(ops[i].wire) :
        LET m == ops[i].wire[k] IN
        m.dir = "request" =>
            /\ m.authorization # NULL =>
                  m.by = "sendRequest" /\ m.to \in ApiEndpoints
            /\ m.to \notin ApiEndpoints => m.authorization = NULL

\* a download sent with the key was redirected, and the second request went
\* to the location
C34_Witness ==
    \E i \in 1..Len(ops) :
        /\ ops[i].name = "dataStoreDownload"
        /\ Len(RequestsOf(ops[i])) = 2
        /\ RequestsOf(ops[i])[1].authorization = "key2"
        /\ RequestsOf(ops[i])[2].to = Location
        /\ ops[i].pc = "returned"

\* ------------------------------------------------------------------------
\* C39: the promise of a request whose response has ended has settled
\* exactly once; a body is returned only for status 200 or 201, the response
\* is handled as a redirect exactly for 301, 302, 303, 307 and 308, and
\* every other status (202 and 204 among them) makes the request fail.
\* ------------------------------------------------------------------------
ReturnedBody(o) == o.pc = "returned" /\ o.result = "body"

HandledAsRedirect(o) ==
    \/ o.pc = "redirected"
    \/ o.pc = "returned" /\ o.result = "response"
    \/ o.pc = "threw" /\ o.err = "unexpected redirect"

\* the request failed: the operation threw, or Api.jobStatus sent it again
RequestFailed(o) ==
    \/ o.pc = "threw" /\ o.err = "status"
    \/ o.name = "jobStatus" /\ o.pc = "first"

C39_StatusSettlesOnce ==
    \A i \in 1..Len(ops) :
        LET rs == ResponsesOf(ops[i]) IN
        rs # <<>> =>
            LET last == rs[Len(rs)] IN
            /\ \A k \in 1..Len(rs) : rs[k].settles = 1
            /\ ReturnedBody(ops[i]) => last.statusCode \in {200, 201}
            /\ Len(rs) = 1 =>
                  (HandledAsRedirect(ops[i]) <=> last.statusCode \in RedirectCodes)
            /\ last.statusCode \notin {200, 201} \cup RedirectCodes
                  => RequestFailed(ops[i])

\* a status fetch that was answered 204, then 202, then 201
C39_Witness ==
    \E i \in 1..Len(ops) :
        /\ ops[i].name = "jobStatus"
        /\ ReturnedBody(ops[i])
        /\ Len(ResponsesOf(ops[i])) = 3
        /\ ResponsesOf(ops[i])[1].statusCode = 204
        /\ ResponsesOf(ops[i])[2].statusCode = 202
        /\ ResponsesOf(ops[i])[3].statusCode = 201

\* ------------------------------------------------------------------------
\* C35: new JobConfig(config) leaves the object given as config as it was:
\* its value after the constructor returned is its value before, the
\* libraries array included, whatever AEGISBLADE_LIBRARIES holds.
\* ------------------------------------------------------------------------
C35_ConfigUnchanged ==
    \A k \in 1..Len(configs) :
        configs[k].from # 0 => configs[k].sourceAfter = configs[k].sourceBefore

\* ------------------------------------------------------------------------
\* C36: new JobConfig(j) for a JobConfig j has the field values of j, so
\* that constructing from a constructed instance changes nothing and the
\* libraries of the copy are those of j.
\* ------------------------------------------------------------------------
C36_ConstructionIdempotent ==
    \A k \in 1..Len(configs) :
        configs[k].from # 0 =>
            /\ configs[k].constructed = configs[k].sourceBefore
            /\ configs[k].constructed.libraries = configs[k].sourceBefore.libraries

\* ------------------------------------------------------------------------
\* C37: no file listed in a create-application request has a fileContents
\* property, and no other request but upload-file has one; an upload-file
\* request carries the contents of the collected file it names in its own
\* fileContents property, and the file metadata beside it has none.
\* ------------------------------------------------------------------------
HasContents(obj) == "fileContents" \in DOMAIN obj

C37_ContentsOnlyInUploads ==
    \A i \in 1..Len(net) :
        LET m == net[i] IN
        m.dir = "request" =>
            IF m.op = "createApplication"
            THEN /\ ~HasContents(m.payload)
                 /\ ~HasContents(m.payload.applicationExecutionContext)
                 /\ \A k \in 1..Len(m.payload.applicationExecutionContext.files) :
                       ~HasContents(m.payload.applicationExecutionContext.files[k])
            ELSE IF m.op = "uploadFile"
            THEN /\ ~HasContents(m.payload.applicationContextFile)
                 /\ \E j \in 1..Len(run.applicationFiles) :
                       LET f == run.applicationFiles[j] IN
                       /\ f.fileHash = m.payload.applicationContextFile.fileHash
                       /\ f.fileByteCount
                             = m.payload.applicationContextFile.fileByteCount
                       /\ m.payload.fileContents = f.fileContents
            ELSE ~HasContents(m.payload)

\* a create-application request that lists several files with contents, and
\* the upload of one of them
C37_Witness ==
    /\ Len(Requests("createApplication")) = 1
    /\ Len(Requests("createApplication")[1]
              .payload.applicationExecutionContext.files) >= 2
    /\ \A j \in 1..Len(run.applicationFiles) :
          run.applicationFiles[j].fileContents # <<>>
    /\ Len(Requests("uploadFile")) >= 1
    /\ Requests("uploadFile")[1].payload.fileContents # <<>>
    /\ UploadPhaseOver

\* ------------------------------------------------------------------------
\* C38: every collected file of the project has as fileHash the hash of the
\* bytes the file has on disk and as fileByteCount the number of those
\* bytes, whatever the bytes are.
\* ------------------------------------------------------------------------
C38_HashOfBytesOnDisk ==
    \A k \in 1..Len(run.collected) :
        \A j \in 1..Len(run.collected[k].files) :
            LET f == run.collected[k].files[j] IN
            f.filePath \in DOMAIN fsys.files =>
                /\ f.fileHash = Sha256(fsys.files[f.filePath])
                /\ f.fileByteCount = Len(fsys.files[f.filePath])

\* ------------------------------------------------------------------------
\* C40: the promise runInProcess returns changes state at most once, and
\* exactly once when the child has emitted 'exit' or 'error'; with 'exit'
\* before 'close' it is fulfilled exactly when the child exited with code 0,
\* and rejected for another code, a signal (code null) and a failed spawn;
\* of isPending, isFulfilled and isRejected exactly one is true, and once
\* isPending is false they tell the state of the promise.
\* ------------------------------------------------------------------------
ChildEnded(p) == p.events # <<>>

ExactlyOne(flags) ==
    Cardinality({f \in DOMAIN flags : flags[f]}) = 1

C40_SettlesOnceByExitCode ==
    \A i \in 1..Len(procs) :
        LET p == procs[i] IN
        /\ p.promise.settles <= 1
        /\ ChildEnded(p) <=> p.promise.settles = 1
        /\ ChildEnded(p) =>
              /\ p.promise.state = "resolve"
                    <=> (p.events[1] = "exit" /\ p.code = "0")
              /\ p.promise.state = "reject"
                    <=> (p.events[1] = "error" \/ p.code # "0")
        /\ ExactlyOne(p.flags)
        /\ ~p.flags.isPending =>
              /\ p.flags.isFulfilled <=> p.promise.state = "resolve"
              /\ p.flags.isRejected <=> p.promise.state = "reject"

\* one child exited with code 0 and closed, another was killed by a signal
\* and closed; both promises have been observed
C40_Witness ==
    \E i, j \in 1..Len(procs) :
        /\ procs[i].events = <<"exit", "close">> /\ procs[i].code = "0"
        /\ procs[i].flags.isFulfilled
        /\ procs[j].events = <<"exit", "close">> /\ procs[j].code = NULL
        /\ procs[j].flags.isRejected

====
